---- MODULE Spec2Model ----
(***************************************************************************)
(* Model of the mongodb-ops library: the registry of database clients kept *)
(* in MongoDBOps.dbClientList (getDbClient / closeDBConn), the facade      *)
(* operations that acquire a client from it, and parsePagination.          *)
(*                                                                         *)
(* An async function runs atomically from one await to the next, so each   *)
(* action below is one such segment of a handler.                          *)
(***************************************************************************)
EXTENDS Integers, Sequences, FiniteSets, TLC

\* ------------------------------------------------------------------ bounds
NumProcs == 2          \* callers whose async calls may overlap
MaxHandles == 3        \* clients MongoClient.connect may create in one run
MaxIndex == 4          \* pagination bounds range over -MaxIndex..MaxIndex
MaxDocs == 2           \* longest docs array handed to writeBulkData
MaxColl == 2           \* most documents of the collection that match list's query
MaxWrites == 2         \* writes of other callers while one list call is in flight

Procs == 1..NumProcs
Handles == 1..MaxHandles

\* ------------------------------------------------------- connection strings
ConnStrings == {"c1", "c2"}
Absent == "<undefined>"
CallArgs == ConnStrings \cup {"", Absent}

\* Mutant of Falsy: only an undefined connection string is rejected.
FalsyOnlyAbsent(c) == c = Absent

\* !connString
Falsy(c) == c \in {"", Absent}

\* The public operations that start with `await MongoDBOps.getDbClient(connString)`.
FacadeOps == {"getData", "writeData", "writeBulkData", "getCollectionCount"}
AcquireOps == {"getDbClient"} \cup FacadeOps

VARIABLES
  dbClientList,   \* MongoDBOps.dbClientList: sequence of client handles
  listIsArray,    \* Array.isArray(MongoDBOps.dbClientList)
  clients,        \* every MongoClient: its s.url and its topology.s.state
  calls,          \* per caller: the async call it has in flight
  last,           \* the call that settled most recently, and its outcome
  closeUsed,      \* closeDBConn has been called at least once
  pgIn,           \* argument of parsePagination
  pgOut,          \* value returned by parsePagination
  pgPc,           \* "input" before parsePagination ran, "done" after
  fc,             \* the getData / search / writeData / writeBulkData call in flight
  io,             \* what that call has asked of the driver so far
  docs,           \* the caller's docs array handed to writeBulkData
  settled,        \* how the call's promise settled
  ls,             \* the list call in flight, its two reads, and the collection
  sc,             \* single-client variant: MongoDBOps.dbClient and the call in flight
  ts              \* a MongoDBToolSet method and the calls its two forms make

vars == <<dbClientList, listIsArray, clients, calls, last, closeUsed, pgIn, pgOut, pgPc,
          fc, io, docs, settled, ls, sc, ts>>
pgVars == <<pgIn, pgOut, pgPc>>
fcVars == <<fc, io, docs, settled>>
lsVars == <<ls>>
scVars == <<sc>>
tsVars == <<ts>>

NoClient == [url |-> "", state |-> "none"]

\* A caller with nothing in flight.
IdleCall ==
  [pc |-> "idle", op |-> "", conn |-> "", ret |-> 0, err |-> "", path |-> "",
   nconn |-> 0, prev |-> 0, prevN |-> 0, i |-> 0]

\* No call has settled yet.
NoOutcome ==
  [op |-> "", conn |-> "", ret |-> 0, err |-> "", path |-> "", nconn |-> 0,
   live |-> FALSE, prev |-> 0, prevN |-> 0, i |-> 0]

\* ----------------------------------------------------------------- helpers
Created == {h \in Handles : clients[h].state # "none"}

\* The handle MongoClient.connect hands out next.
FreshHandle == Cardinality(Created) + 1

Min(S) == CHOOSE k \in S : \A j \in S : k <= j

\* for (let item of dbClientList) if (item.s.url === connString): the index of
\* the first entry whose url is c, 0 when the loop falls through.
FindCached(c) ==
  LET S == {k \in 1..Len(dbClientList) : clients[dbClientList[k]].url = c}
  IN IF S = {} THEN 0 ELSE Min(S)

\* Mutant of NotConnected: the state of the cached entry is never looked at.
NotConnectedNever(h) == FALSE

\* Mutant of NotConnected: only a dropped connection counts, a closed client
\* passes for connected.
NotConnectedUnlessClosed(h) == clients[h].state = "disconnected"

\* item.topology.s.state !== "connected"
NotConnected(h) == clients[h].state # "connected"

\* The branch getDbClient(c) takes: it throws, returns the cached entry,
\* awaits a reconnect, or falls through the loop and awaits a first connect.
Branch(c) ==
  IF Falsy(c) THEN "throw"
  ELSE IF FindCached(c) = 0 THEN "new"
  ELSE IF NotConnected(dbClientList[FindCached(c)]) THEN "reconnect"
  ELSE "cached"

\* Mutant of ListAfterConnect: every connect pushes its client.
ListAfterConnectAlways(path, h) == Append(dbClientList, h)

\* The registry after MongoClient.connect resolved with handle h for a caller
\* on the given path: only the fall-through path pushes; the reconnect path
\* assigns the loop variable `item` and leaves the list as it is.
ListAfterConnect(path, h) ==
  IF path = "new" THEN Append(dbClientList, h) ELSE dbClientList

\* Mutant of LoopLeaves: a failed close is swallowed and the loop goes on.
LoopLeavesAtEnd(i, ok) == i + 1 > Len(dbClientList)

\* Whether closeDBConn's loop is left once the close of entry i has settled:
\* by the exception of a failed close, or at the end of the list.
LoopLeaves(i, ok) == ~ok \/ i + 1 > Len(dbClientList)

\* The outcome of a call that settles with handle h (0: none) and error err.
Outcome(rec, h, err) ==
  [op |-> rec.op, conn |-> rec.conn, ret |-> h, err |-> err, path |-> rec.path,
   nconn |-> rec.nconn, live |-> FALSE, prev |-> rec.prev, prevN |-> rec.prevN,
   i |-> rec.i]

\* The handle of the most recently settled call, when that call acquired it
\* for connection string c and it still reports connected; else 0.
PrevRet(c) ==
  IF last.ret # 0 /\ last.conn = c /\ ~NotConnected(last.ret) THEN last.ret ELSE 0

Started(op, c) ==
  [IdleCall EXCEPT !.op = op, !.conn = c, !.prev = PrevRet(c),
                   !.prevN = IF PrevRet(c) # 0 THEN last.nconn ELSE 0]

\* ------------------------------------------------------------ parsePagination
\* JavaScript values of the pagination bounds. A number is kept as twice its
\* value, so that halves (1.5 is 3) stand for the non-integral numbers.
JsUndefined == [t |-> "undefined", twice |-> 0]
JsNull == [t |-> "null", twice |-> 0]
JsNaN == [t |-> "NaN", twice |-> 0]
Num(k) == [t |-> "number", twice |-> k]
Str(k) == [t |-> "string", twice |-> k]

\* The bounds a caller may pass: every number from -MaxIndex to MaxIndex in
\* steps of one half, the integers among them as numeric strings, undefined
\* (the bound is missing), null and NaN.
PgValues ==
  {Num(k) : k \in (0 - 2 * MaxIndex)..(2 * MaxIndex)}
    \cup {Str(2 * k) : k \in (0 - MaxIndex)..MaxIndex}
    \cup {JsUndefined, JsNull, JsNaN}

\* Unary plus: +undefined is NaN, +null is 0, a numeric string is its number.
ToNumber(v) ==
  CASE v.t = "undefined" -> JsNaN
    [] v.t = "null" -> Num(0)
    [] v.t = "string" -> Num(v.twice)
    [] OTHER -> v

\* x < 1, false for NaN
LessThanOne(x) == x.t = "number" /\ x.twice < 2

\* Number.isInteger(x)
IsInteger(x) == x.t = "number" /\ x.twice % 2 = 0

\* Mutant of ClampStart: the start index is not raised to 1.
ClampStartNone(x) == x

\* startIndex = startIndex < 1 ? 1 : startIndex
ClampStart(x) == IF LessThanOne(x) THEN Num(2) ELSE x

\* (endIndex - startIndex + 1) < 0 ? 0 : endIndex - startIndex + 1
LimitOf(s, e) ==
  IF e.twice - s.twice + 2 < 0 THEN Num(0) ELSE Num(e.twice - s.twice + 2)

parsePagination(arg) ==
  LET startIndex == ClampStart(ToNumber(arg.startIndex))
      endIndex == ToNumber(arg.endIndex)
  IN [skip |-> IF IsInteger(startIndex) THEN Num(startIndex.twice - 2) ELSE JsUndefined,
      limit |-> IF IsInteger(startIndex) /\ IsInteger(endIndex)
                  THEN LimitOf(startIndex, endIndex)
                  ELSE JsUndefined]

\* --------------------------------------------------------------- facade calls
\* The pagination argument of getData and search: undefined, or an object
\* whose startIndex and endIndex are each missing or a value.
PgAbsent == [given |-> FALSE, startIndex |-> JsUndefined, endIndex |-> JsUndefined]
PgObject(s, e) == [given |-> TRUE, startIndex |-> s, endIndex |-> e]

\* The bounds the facade calls are tried on: the integers from -1 to MaxIndex,
\* 1.5, the string "2", a missing bound, null and NaN.
FacPgValues ==
  {Num(2 * k) : k \in (0 - 1)..MaxIndex} \cup {Num(3), Str(4), JsUndefined, JsNull, JsNaN}

PgArgs == {PgAbsent} \cup {PgObject(s, e) : s, e \in FacPgValues}

\* if (pagination)
PgGiven(pg) == pg.given

\* if (skip), if (limit): a number other than 0 and NaN
Truthy(x) == x.t = "number" /\ x.twice # 0

\* Math.ceil((skip + 1) / limit): NaN when skip or limit is undefined; the
\* caller has returned before this for a limit below 1.
PageOf(skip, limit) ==
  IF skip.t = "number" /\ limit.t = "number" /\ limit.twice > 0
    THEN Num(2 * ((skip.twice + limit.twice) \div limit.twice))
    ELSE JsNaN

\* The optional arguments that are passed through to the driver.
FindOpts == {"projection", "sort", "collation"}
SearchOpts == {"projection", "sort"}

\* What is asked of the collection: the cursor calls of getData's find, or the
\* stages of search's pipeline.
NoQuery ==
  [projection |-> FALSE, sort |-> FALSE, collation |-> FALSE,
   skipSet |-> FALSE, skip |-> JsUndefined, limitSet |-> FALSE, limit |-> JsUndefined,
   facet |-> FALSE, page |-> JsUndefined]

\* find(queryExp, projection) [.sort(sort)] [.skip(skip).limit(limit)] [.collation(collation)]
FindQuery(opts, pg) ==
  [NoQuery EXCEPT !.projection = "projection" \in opts,
                  !.sort = "sort" \in opts,
                  !.collation = "collation" \in opts,
                  !.skipSet = PgGiven(pg),
                  !.skip = IF PgGiven(pg) THEN parsePagination(pg).skip ELSE JsUndefined,
                  !.limitSet = PgGiven(pg),
                  !.limit = IF PgGiven(pg) THEN parsePagination(pg).limit ELSE JsUndefined]

\* search's payload: $search, $addFields, [$project], [$sort], then the $skip
\* and $limit stages that are truthy, inside a $facet with the page metadata
\* when isGetCount.
SearchQuery(opts, pg, isGetCount) ==
  LET skip == parsePagination(pg).skip
      limit == parsePagination(pg).limit
  IN [NoQuery EXCEPT !.projection = "projection" \in opts,
                     !.sort = "sort" \in opts,
                     !.skipSet = Truthy(skip),
                     !.skip = IF Truthy(skip) THEN skip ELSE JsUndefined,
                     !.limitSet = Truthy(limit),
                     !.limit = IF Truthy(limit) THEN limit ELSE JsUndefined,
                     !.facet = isGetCount,
                     !.page = IF isGetCount THEN PageOf(skip, limit) ELSE JsUndefined]

\* The type argument of writeData and of writeBulkData.
WriteKinds == {"insertOne", "replaceOne", "updateOne", "updateMany", "deleteOne", "deleteMany"}
BulkKinds == {"insertBulk", "replaceBulk", "updateBulk", "deleteBulk", "allBulk"}
KindArgs == WriteKinds \cup BulkKinds \cup {"bogusKind"}

\* An element of the docs array: the caller's i-th document under the keys
\* writeBulkData has wrapped it in, outermost first.
RawDoc(i) == [wrap |-> <<>>, id |-> i]
RawDocs(n) == [i \in 1..n |-> RawDoc(i)]

\* docs[i] = { insertOne: { "document": docs[i] }}, { replaceOne: docs[i] }, ...
WrapDoc(kind, d) ==
  CASE kind = "insertBulk" -> [d EXCEPT !.wrap = <<"insertOne", "document">> \o d.wrap]
    [] kind = "replaceBulk" -> [d EXCEPT !.wrap = <<"replaceOne">> \o d.wrap]
    [] kind = "updateBulk" -> [d EXCEPT !.wrap = <<"updateOne">> \o d.wrap]
    [] kind = "deleteBulk" -> [d EXCEPT !.wrap = <<"deleteOne">> \o d.wrap]
    [] OTHER -> d

\* Mutant of WrapDocs: the loop starts at the second element.
WrapDocsFromSecond(kind, ds) ==
  [i \in 1..Len(ds) |-> IF i = 1 THEN ds[i] ELSE WrapDoc(kind, ds[i])]

\* for (let i = 0; i < docs.length; ++i) { docs[i] = ... }
WrapDocs(kind, ds) == [i \in 1..Len(ds) |-> WrapDoc(kind, ds[i])]

\* Mutant of OrderedFlag: the argument is ignored, the batch is never ordered.
OrderedFlagIgnored(arg) == "false"

\* ordered = false as the default of a missing argument
OrderedFlag(arg) == IF arg = Absent THEN "false" ELSE arg

\* An error the driver throws: its result, errmsg and message fields, each
\* missing or a string (which may be empty).
DriverErrors ==
  [result : {Absent, "result"}, errmsg : {Absent, "", "errmsg-text"},
   message : {Absent, "", "message-text"}]

\* new Error(msg)
CodeError(msg) == [result |-> Absent, errmsg |-> Absent, message |-> msg]
NoError == CodeError(Absent)

\* A string field used as the left operand of ||
FieldTruthy(f) == f # Absent /\ f # ""

\* How the promise of a call settled.
Pending == [state |-> "pending", shape |-> "", text |-> "", err |-> NoError]
Resolved(shape) == [state |-> "resolved", shape |-> shape, text |-> "", err |-> NoError]
RejectedText(t) == [state |-> "rejected", shape |-> "string", text |-> t, err |-> NoError]
RejectedRaw(e) == [state |-> "rejected", shape |-> "error", text |-> "", err |-> e]

\* Mutant of UnwrapWrite: message is tried before errmsg.
UnwrapWriteMessageFirst(e) ==
  IF FieldTruthy(e.message) THEN RejectedText(e.message)
  ELSE IF FieldTruthy(e.errmsg) THEN RejectedText(e.errmsg)
  ELSE RejectedRaw(e)

\* Promise.reject(err.errmsg || err.message || err)
UnwrapWrite(e) ==
  IF FieldTruthy(e.errmsg) THEN RejectedText(e.errmsg)
  ELSE IF FieldTruthy(e.message) THEN RejectedText(e.message)
  ELSE RejectedRaw(e)

\* Promise.reject(err.result || err.errmsg || err.message)
UnwrapBulk(e) ==
  IF FieldTruthy(e.result) THEN [Pending EXCEPT !.state = "rejected", !.shape = "result"]
  ELSE IF FieldTruthy(e.errmsg) THEN RejectedText(e.errmsg)
  ELSE IF e.message = Absent THEN [Pending EXCEPT !.state = "rejected", !.shape = "undefined"]
  ELSE RejectedText(e.message)

\* The bulk operations: writeBulkData and the MongoDBToolSet wrappers that
\* fix its type and its ordered flag.
BulkOps == {"writeBulkData", "insertBulkOrdered", "insertBulkUnOrdered"}
FacConns == {"c1", "", Absent}

\* No facade call in flight; also the arguments a call leaves undefined.
IdleFc ==
  [pc |-> "idle", op |-> "", kind |-> "", conn |-> Absent, coll |-> Absent,
   search |-> Absent, isAggregate |-> FALSE, isGetCount |-> FALSE, opts |-> {},
   pagination |-> PgAbsent, ordered |-> Absent, ndocs |-> 0, retry |-> 0, path |-> ""]

\* Nothing asked of the driver yet.
NoIo ==
  [connects |-> 0, nprim |-> 0, prim |-> "none", query |-> NoQuery, ops |-> <<>>,
   ordered |-> "", applied |-> {}, failed |-> {}, err |-> NoError]

\* getData(collectionName, queryExp, isAggregate, projection, sort, pagination,
\* isGetCount, connString, collation): in find and in count mode on every
\* pagination of PgArgs, in aggregate mode without pagination and with one
\* that resolves to limit 0.
GetDataArgs ==
  {[IdleFc EXCEPT !.op = "getData", !.coll = "col", !.conn = c, !.opts = o, !.pagination = pg] :
     c \in FacConns, o \in SUBSET FindOpts, pg \in PgArgs}
  \cup
  {[IdleFc EXCEPT !.op = "getData", !.coll = "col", !.conn = c, !.pagination = pg,
                  !.isAggregate = m[1], !.isGetCount = m[2]] :
     c \in FacConns, pg \in {PgAbsent, PgObject(Num(4), Num(2))},
     m \in {<<TRUE, FALSE>>, <<TRUE, TRUE>>}}
  \cup
  {[IdleFc EXCEPT !.op = "getData", !.coll = "col", !.conn = c, !.pagination = pg,
                  !.isGetCount = TRUE] :
     c \in FacConns, pg \in PgArgs}

\* search(connString, collectionName, search, { projection, sort, pagination }, isGetCount)
SearchArgs ==
  {[IdleFc EXCEPT !.op = "search", !.conn = c, !.coll = n, !.search = s, !.opts = o,
                  !.pagination = pg, !.isGetCount = g] :
     c \in FacConns, n \in {"col", Absent}, s \in {"spec", Absent},
     o \in SUBSET SearchOpts, pg \in PgArgs, g \in BOOLEAN}

\* writeData(type, collectionName, doc, filter, connString)
WriteArgs ==
  {[IdleFc EXCEPT !.op = "writeData", !.coll = "col", !.kind = k, !.conn = c] :
     k \in KindArgs, c \in FacConns}

\* writeBulkData(type, collectionName, docs, ordered, connString)
BulkArgs ==
  {[IdleFc EXCEPT !.op = "writeBulkData", !.coll = "col", !.kind = k, !.conn = c, !.ordered = f] :
     k \in KindArgs, c \in FacConns, f \in {Absent, "true", "false"}}

\* insertBulkOrdered(collectionName, docs, connString) and insertBulkUnOrdered:
\* writeBulkData("insertBulk", collectionName, docs, true | false, connString)
WrapperArgs ==
  {[IdleFc EXCEPT !.op = w[1], !.coll = "col", !.kind = "insertBulk", !.conn = c,
                  !.ordered = w[2]] :
     c \in FacConns,
     w \in {<<"insertBulkOrdered", "true">>, <<"insertBulkUnOrdered", "false">>}}

\* getCollectionCount(collectionName, connString), and getCollectionCount(
\* collectionName) of the instance new MongoDBOps(connString), which the
\* constructor lets exist for a truthy connString only.
CollCountArgs ==
  {[IdleFc EXCEPT !.op = "getCollectionCount", !.coll = "col", !.conn = c] : c \in FacConns}
  \cup
  {[IdleFc EXCEPT !.op = "instanceGetCollectionCount", !.coll = "col", !.conn = c] :
     c \in {c \in FacConns : ~Falsy(c)}}

\* The operations that have no catch: what is thrown in them is their rejection.
ReadOps == {"getData", "search", "getCollectionCount", "instanceGetCollectionCount"}

\* The connString that reaches getDbClient: the caller's, but for the instance
\* getCollectionCount, which calls MongoDBOps.getData(collectionName,
\* this.connString) and so leaves getData's eighth parameter undefined.
ConnOf(rec) == IF rec.op = "instanceGetCollectionCount" THEN Absent ELSE rec.conn

\* The static method whose code a call runs after its entry.
BodyOf(rec) == IF rec.op = "instanceGetCollectionCount" THEN "getData" ELSE rec.op

\* The rejection of a call whose code threw or whose await rejected with e:
\* getData and search let it through, writeData and writeBulkData catch it.
ErrorOut(op, e) ==
  CASE op \in ReadOps -> RejectedRaw(e)
    [] op = "writeData" -> UnwrapWrite(e)
    [] OTHER -> UnwrapBulk(e)

\* The errors an await of the driver is let reject with: one for the calls
\* that pass it on as it is, every combination of errmsg and message for
\* writeData, and of result and non-empty errmsg and message for the bulk calls.
ErrorsOf(op) ==
  CASE op \in ReadOps ->
         {[result |-> Absent, errmsg |-> "errmsg-text", message |-> "message-text"]}
    [] op = "writeData" -> {e \in DriverErrors : e.result = Absent}
    [] OTHER -> {e \in DriverErrors : e.errmsg # "" /\ e.message # ""}

\* The call returns or throws: its promise settles.
Settle(rec, cio, ds, out) ==
  [fc |-> [rec EXCEPT !.pc = "done"], io |-> cio, docs |-> ds, settled |-> out]

\* The call's code throws e, or an await in it rejects with e.
Throw(rec, cio, ds, e) == Settle(rec, [cio EXCEPT !.err = e], ds, ErrorOut(rec.op, e))

\* The call hands a primitive to the driver and awaits it.
Submit(rec, cio, ds) ==
  [fc |-> [rec EXCEPT !.pc = "store"], io |-> [cio EXCEPT !.nprim = @ + 1], docs |-> ds,
   settled |-> Pending]

\* Mutant of GetDataMode: the limit is tested before isGetCount, as the
\* single-client getData does.
GetDataModeLimitFirst(rec) ==
  IF rec.isAggregate THEN "aggregate"
  ELSE IF LessThanOne(parsePagination(rec.pagination).limit) THEN "empty"
  ELSE IF rec.isGetCount THEN "countDocuments"
  ELSE "find"

\* What getData does with its client: the tests of lines 123 to 129 in their
\* order: aggregate, countDocuments, return [] for a limit below 1, else find.
GetDataMode(rec) ==
  IF rec.isAggregate THEN "aggregate"
  ELSE IF rec.isGetCount THEN "countDocuments"
  ELSE IF LessThanOne(parsePagination(rec.pagination).limit) THEN "empty"
  ELSE "find"

\* The code that follows `await MongoDBOps.getDbClient(connString)` in each
\* operation, up to its next await or its return.
AfterClient(rec, cio, ds) ==
  CASE BodyOf(rec) = "getData" ->
         IF GetDataMode(rec) = "empty"
           THEN Settle(rec, cio, ds, Resolved("emptyArray"))
         ELSE IF GetDataMode(rec) = "find"
           THEN Submit(rec, [cio EXCEPT !.prim = "find",
                                        !.query = FindQuery(rec.opts, rec.pagination)], ds)
         ELSE Submit(rec, [cio EXCEPT !.prim = GetDataMode(rec)], ds)
    [] rec.op = "getCollectionCount" ->
         Submit(rec, [cio EXCEPT !.prim = "estimatedDocumentCount"], ds)
    [] rec.op = "search" ->
         Submit(rec, [cio EXCEPT !.prim = "aggregate",
                                 !.query = SearchQuery(rec.opts, rec.pagination, rec.isGetCount)], ds)
    [] rec.op = "writeData" ->
         IF rec.kind \in WriteKinds
           THEN Submit(rec, [cio EXCEPT !.prim = rec.kind], ds)
           ELSE Throw(rec, cio, ds, CodeError("invalid-writeData-type"))
    [] OTHER ->
         IF rec.kind \in BulkKinds
           THEN Submit(rec, [cio EXCEPT !.prim = "bulkWrite",
                                        !.ops = WrapDocs(rec.kind, ds),
                                        !.ordered = OrderedFlag(rec.ordered)],
                       WrapDocs(rec.kind, ds))
           ELSE Throw(rec, cio, ds, CodeError("invalid-writeBulkData-type"))

\* await MongoDBOps.getDbClient(connString), up to its first await.
Acquire(rec, ds) ==
  CASE Branch(ConnOf(rec)) = "throw" ->
         Throw([rec EXCEPT !.path = "throw"], NoIo, ds, CodeError("missing-connection-string"))
    [] Branch(ConnOf(rec)) = "cached" ->
         AfterClient([rec EXCEPT !.path = "cached"], NoIo, ds)
    [] OTHER ->
         [fc |-> [rec EXCEPT !.pc = "connect", !.path = Branch(ConnOf(rec))],
          io |-> [NoIo EXCEPT !.connects = 1], docs |-> ds, settled |-> Pending]

\* Mutant of SearchArgsMissing: the search spec is not looked at.
SearchArgsMissingNoSpec(rec) == Absent \in {rec.conn, rec.coll}

\* [connString, collectionName, search].includes(undefined)
SearchArgsMissing(rec) == Absent \in {rec.conn, rec.coll, rec.search}

\* search returns before it calls getData.
SearchReturnsEarly(rec) ==
  SearchArgsMissing(rec) \/ LessThanOne(parsePagination(rec.pagination).limit)

\* A call from its entry up to its first await or its return.
Begin(rec, ds) ==
  IF rec.op = "search" /\ SearchArgsMissing(rec)
    THEN Settle(rec, NoIo, ds,
                RejectedText("Connection string, collection name and search cannot be undefined"))
  ELSE IF rec.op = "search" /\ LessThanOne(parsePagination(rec.pagination).limit)
    THEN Settle(rec, NoIo, ds, Resolved("emptyArray"))
  ELSE Acquire(rec, ds)

\* Mutant of ShapeOf: search returns the aggregate's result array as it is.
ShapeOfWholeResult(rec) ==
  CASE BodyOf(rec) = "getData" -> IF ~rec.isAggregate /\ rec.isGetCount THEN "count" ELSE "array"
    [] rec.op = "getCollectionCount" -> "estimate"
    [] rec.op = "search" -> "array"
    [] OTHER -> "result"

\* What the promise of a call resolves to once its primitive has resolved:
\* search returns isGetCount ? result[0] : result.
ShapeOf(rec) ==
  CASE BodyOf(rec) = "getData" -> IF ~rec.isAggregate /\ rec.isGetCount THEN "count" ELSE "array"
    [] rec.op = "getCollectionCount" -> "estimate"
    [] rec.op = "search" -> IF rec.isGetCount THEN "record" ELSE "array"
    [] OTHER -> "result"

\* The elements of a batch of n the store applies when those of `failed`
\* fail: with ordered, the ones before the first failing one; without, every
\* one that does not fail.
BulkApplied(n, ordered, failed) ==
  IF ordered = "true"
    THEN {i \in 1..n : \A j \in failed : i < j}
    ELSE (1..n) \ failed

\* ---------------------------------------------------------------- list
\* The showCount argument of list: true, "true", false, or left out.
ShowCounts == {"bool:true", "str:true", "bool:false", Absent}

\* Mutant of ShowCountOn: only the boolean asks for the count.
ShowCountOnBooleanOnly(v) == v = "bool:true"

\* ["true", true].includes(showCount)
ShowCountOn(v) == v \in {"str:true", "bool:true"}

\* The paginations list is tried on: none, 1..1, 1..2, 2..2, and 1..0 whose
\* limit is 0.
ListPgArgs ==
  {PgAbsent, PgObject(Num(2), Num(2)), PgObject(Num(2), Num(4)), PgObject(Num(4), Num(4)),
   PgObject(Num(2), Num(0))}

\* list(collectionName, query, projection, sort, pagination, showCount, connString)
ListArgs ==
  [showCount : ShowCounts, conn : FacConns, pagination : ListPgArgs,
   opts : {{}, {"projection", "sort"}}]

\* getDataCount(collectionName, query, connString):
\* getData(collectionName, filter, false, undefined, undefined, undefined, true, connString)
CountCall(l) ==
  [IdleFc EXCEPT !.op = "getData", !.coll = "col", !.conn = l.conn, !.isGetCount = TRUE]

\* Mutant of FilterCall: the pagination is not handed on.
FilterCallNoPagination(l) ==
  [IdleFc EXCEPT !.op = "getData", !.coll = "col", !.conn = l.conn, !.opts = l.opts]

\* getDataByFilter(collectionName, query, projection, sort, pagination, connString):
\* getData(collectionName, filter, false, projection, sort, pagination, undefined,
\* connString, collation) with no collation
FilterCall(l) ==
  [IdleFc EXCEPT !.op = "getData", !.coll = "col", !.conn = l.conn, !.opts = l.opts,
                 !.pagination = l.pagination]

\* The calls list makes, all started before it awaits: the two of Promise.all
\* when showCount asks for the count, else getDataByFilter alone.
SubCalls(l) ==
  IF ShowCountOn(l.showCount) THEN <<CountCall(l), FilterCall(l)>> ELSE <<FilterCall(l)>>

\* The documents find(...).skip(skip).limit(limit).toArray() returns of a
\* collection in which `size` documents match: the page, or all of them when
\* the cursor was given no skip and limit.
PageLen(size, q) ==
  IF q.skipSet /\ q.limitSet
    THEN LET rest == IF size > q.skip.twice \div 2 THEN size - q.skip.twice \div 2 ELSE 0
             lim == q.limit.twice \div 2
         IN IF rest < lim THEN rest ELSE lim
    ELSE size

\* One of list's calls of getData: the call, what it asked of the driver, how
\* it settled, the number it resolved to (a count, or the length of the
\* array) and the write of the collection it was evaluated after.
SubOf(b, value, at) ==
  [fc |-> b.fc, io |-> b.io, settled |-> b.settled, value |-> value, at |-> at]

\* The call from its entry up to its first await or its return.
StartSub(rec) ==
  LET b == Begin(rec, <<>>)
  IN SubOf(b, IF b.settled.state = "resolved" THEN 0 ELSE 0 - 1, 0 - 1)

\* How list's promise settles: with the first rejection among its calls,
\* else, once all have resolved, with { total_count, data } or with what
\* getDataByFilter returned.
ListOut(l, out, sub) ==
  LET rejected == {k \in 1..Len(sub) : sub[k].settled.state = "rejected"}
  IN IF out.state # "pending" THEN out
     ELSE IF rejected # {} THEN sub[Min(rejected)].settled
     ELSE IF \A k \in 1..Len(sub) : sub[k].settled.state = "resolved"
       THEN Resolved(IF ShowCountOn(l.showCount) THEN "record" ELSE sub[1].settled.shape)
     ELSE Pending

\* No list call in flight.
IdleList ==
  [pc |-> "idle", arg |-> [showCount |-> Absent, conn |-> Absent, pagination |-> PgAbsent,
                           opts |-> {}],
   sub |-> <<>>, out |-> Pending, fresh |-> FALSE, opened |-> 0, size |-> 0, writes |-> 0]

\* list's calls have all run to their end.
AllDone(sub) == \A k \in 1..Len(sub) : sub[k].fc.pc = "done"

LsIdle == ls = IdleList

\* ------------------------------------------------- single-client variant
DEFAULT_POOLSIZE == 5

\* A poolSize argument that is left out, and MongoDBOps.poolSize while nobody
\* has assigned it.
NotGiven == 0

\* A pool size other than the default.
OtherPool == 2 * DEFAULT_POOLSIZE

PoolArgs == {NotGiven, DEFAULT_POOLSIZE, OtherPool}

\* The values the application assigns to MongoDBOps.poolSize.
StaticPools == {NotGiven, OtherPool, 3 * DEFAULT_POOLSIZE}

\* poolSize = DEFAULT_POOLSIZE as the default of a missing argument
PoolParam(p) == IF p = NotGiven THEN DEFAULT_POOLSIZE ELSE p

\* Mutant of PoolUsed: MongoDBOps.poolSize, when set, comes first.
PoolUsedStaticFirst(p, static) == IF static # NotGiven THEN static ELSE p

\* poolSize !== DEFAULT_POOLSIZE ? poolSize : MongoDBOps.poolSize || DEFAULT_POOLSIZE
PoolUsed(p, static) ==
  IF p # DEFAULT_POOLSIZE THEN p
  ELSE IF static # NotGiven THEN static
  ELSE DEFAULT_POOLSIZE

\* MongoDBOps.dbClient is undefined.
NoScClient == [url |-> "", state |-> "none", pool |-> 0]

ScFacadeOps == {"getData", "writeData", "writeBulkData"}

\* MongoDBOps.dbClient && MongoDBOps.dbClient.topology.s.state === "connected"
ScConnected(client) == client.state = "connected"

\* No call in flight, no client yet, MongoDBOps.poolSize not assigned.
IdleSc ==
  [pc |-> "idle", op |-> "", conn |-> Absent, given |-> NotGiven, pool |-> 0,
   client |-> NoScClient, was |-> NoScClient, poolSize |-> NotGiven, made |-> 0,
   nconn |-> 0, usedUrl |-> "", err |-> ""]

\* The fields of sc that belong to the call in flight, reset.
ScRest(s) ==
  [s EXCEPT !.pc = "idle", !.op = "", !.conn = Absent, !.given = NotGiven, !.pool = 0,
            !.was = NoScClient, !.nconn = 0, !.usedUrl = "", !.err = ""]

\* openDBConn(connString, poolSize) from its entry to its first await or its
\* return, for the call s.
OpenDBConn(s, p) ==
  IF ScConnected(s.client) THEN [s EXCEPT !.pc = "done"]
  ELSE IF Falsy(s.conn) THEN [s EXCEPT !.pc = "done", !.err = "missing-connection-string"]
  ELSE [s EXCEPT !.pc = "connect", !.pool = PoolUsed(PoolParam(p), s.poolSize)]

\* let db = MongoDBOps.dbClient.db(), and the primitive is awaited on it.
ScExecute(s) == [s EXCEPT !.pc = "store", !.usedUrl = s.client.url]

ScIdle == sc = IdleSc

\* --------------------------------------------------------- MongoDBToolSet
\* The fields of a MongoDBToolSet instance, as the values they hold.
ThisColl == "this.collectionName"
ThisConn == "this.connString"

BulkWrappers ==
  {"insertBulkOrdered", "insertBulkUnOrdered", "replaceBulkOrdered", "replaceBulkUnOrdered",
   "updateBulkOrdered", "updateBulkUnOrdered", "deleteBulkOrdered", "deleteBulkUnOrdered",
   "allBulkOrdered", "allBulkUnOrdered"}

\* The type a bulk wrapper hands to writeBulkData.
BulkTypeOf(m) ==
  CASE m \in {"insertBulkOrdered", "insertBulkUnOrdered"} -> "insertBulk"
    [] m \in {"replaceBulkOrdered", "replaceBulkUnOrdered"} -> "replaceBulk"
    [] m \in {"updateBulkOrdered", "updateBulkUnOrdered"} -> "updateBulk"
    [] m \in {"deleteBulkOrdered", "deleteBulkUnOrdered"} -> "deleteBulk"
    [] OTHER -> "allBulk"

\* The ordered flag a bulk wrapper hands to writeBulkData.
BulkOrderedOf(m) ==
  IF m \in {"insertBulkOrdered", "replaceBulkOrdered", "updateBulkOrdered",
            "deleteBulkOrdered", "allBulkOrdered"}
    THEN "true" ELSE "false"

DocFilterWrites == {"replaceOne", "updateOne", "updateMany"}
FilterWrites == {"deleteOne", "deleteMany"}

\* The methods of the later MongoDBToolSet, and of the earlier one.
NewMethods ==
  {"getDataByID", "getDataByFilter", "getDataByAggregate", "getDataCount", "list",
   "getAllData", "insertOne"} \cup DocFilterWrites \cup FilterWrites \cup BulkWrappers
OldMethods ==
  {"getDataByID", "getAllData", "insertOne"} \cup DocFilterWrites
    \cup (BulkWrappers \ {"deleteBulkOrdered", "deleteBulkUnOrdered"})

\* The parameters of the instance method m.
Params(m) ==
  CASE m = "getDataByID" -> <<"id", "projection">>
    [] m = "getDataByFilter" -> <<"filter", "projection", "sort", "pagination", "collation">>
    [] m = "getDataByAggregate" -> <<"pipeline", "options">>
    [] m = "getDataCount" -> <<"filter">>
    [] m = "list" -> <<"query", "projection", "sort", "pagination", "showCount">>
    [] m = "getAllData" -> <<"projection", "sort", "pagination">>
    [] m = "insertOne" -> <<"doc">>
    [] m \in DocFilterWrites -> <<"doc", "filter">>
    [] m \in FilterWrites -> <<"filter">>
    [] OTHER -> <<"docs">>

\* The parameters of the static method m.
StaticSig(m) ==
  CASE m = "getDataByID" -> <<"collectionName", "id", "projection", "connString">>
    [] m = "getDataByFilter" ->
         <<"collectionName", "filter", "projection", "sort", "pagination", "connString",
           "collation">>
    [] m = "getDataByAggregate" -> <<"collectionName", "pipeline", "connString", "options">>
    [] m = "getDataCount" -> <<"collectionName", "filter", "connString">>
    [] m = "list" ->
         <<"collectionName", "query", "projection", "sort", "pagination", "showCount",
           "connString">>
    [] m = "getAllData" -> <<"collectionName", "projection", "sort", "pagination", "connString">>
    [] m = "insertOne" -> <<"collectionName", "doc", "connString">>
    [] m \in DocFilterWrites -> <<"collectionName", "doc", "filter", "connString">>
    [] m \in FilterWrites -> <<"collectionName", "filter", "connString">>
    [] OTHER -> <<"collectionName", "docs", "connString">>

\* Mutant of InstanceBody: this.connString is always handed over last.
InstanceBodyConnLast(m) == <<ThisColl>> \o Params(m) \o <<ThisConn>>

\* The arguments the instance method m of the later MongoDBToolSet writes in
\* its call of MongoDBToolSet.m.
InstanceBody(m) ==
  CASE m = "getDataByID" -> <<ThisColl, "id", "projection", ThisConn>>
    [] m = "getDataByFilter" ->
         <<ThisColl, "filter", "projection", "sort", "pagination", ThisConn, "collation">>
    [] m = "getDataByAggregate" -> <<ThisColl, "pipeline", ThisConn, "options">>
    [] m = "getDataCount" -> <<ThisColl, "filter", ThisConn>>
    [] m = "list" ->
         <<ThisColl, "query", "projection", "sort", "pagination", "showCount", ThisConn>>
    [] m = "getAllData" -> <<ThisColl, "projection", "sort", "pagination", ThisConn>>
    [] m = "insertOne" -> <<ThisColl, "doc", ThisConn>>
    [] m \in DocFilterWrites -> <<ThisColl, "doc", "filter", ThisConn>>
    [] m \in FilterWrites -> <<ThisColl, "filter", ThisConn>>
    [] OTHER -> <<ThisColl, "docs", ThisConn>>

\* The parameters of the function a call frame runs.
Sig(f) ==
  CASE f.cls = "ToolSet.instance" -> Params(f.fn)
    [] f.cls = "ToolSet.static" -> StaticSig(f.fn)
    [] f.cls = "Ops.instance" /\ f.fn = "writeData" ->
         <<"type", "collectionName", "doc", "filter">>
    [] f.cls = "Ops.instance" -> <<"type", "collectionName", "docs", "ordered">>
    [] f.fn = "getData" ->
         <<"collectionName", "queryExp", "isAggregate", "projection", "sort", "pagination",
           "isGetCount", "connString", "collation", "options">>
    [] f.fn = "writeData" -> <<"type", "collectionName", "doc", "filter", "connString">>
    [] OTHER -> <<"type", "collectionName", "docs", "ordered", "connString">>

\* The value of parameter `name` in frame f: the argument at its position,
\* and for an undefined one the default of isAggregate, isGetCount and ordered.
Value(f, name) ==
  LET i == CHOOSE k \in 1..Len(Sig(f)) : Sig(f)[k] = name
      arg == IF i <= Len(f.args) THEN f.args[i] ELSE Absent
  IN IF arg = Absent /\ name \in {"isAggregate", "isGetCount", "ordered"} THEN "false" ELSE arg

\* The value of an argument expression in frame f: a parameter, { _id: id },
\* queryExp || {}, or a literal, which stands for itself.
Eval(f, e) ==
  CASE e \in {Sig(f)[k] : k \in 1..Len(Sig(f))} -> Value(f, e)
    [] e = "{ _id: id }" -> IF Value(f, "id") = Absent THEN "{ _id: undefined }" ELSE e
    [] e = "queryExp || {}" -> IF Value(f, "queryExp") = Absent THEN "{}" ELSE Value(f, "queryExp")
    [] OTHER -> e

\* The calls the body of frame f makes under version v, as written: class,
\* function and argument expressions. A MongoDBOps static body ends in the
\* primitive it awaits on the client of connString.
Body(v, f) ==
  LET call(cls, fn, args) == <<[cls |-> cls, fn |-> fn, args |-> args]>>
      count == call("ToolSet.static", "getDataCount", <<"collectionName", "query", "connString">>)
      filter == call("ToolSet.static", "getDataByFilter",
                     <<"collectionName", "query", "projection", "sort", "pagination",
                       "connString">>)
  IN CASE f.cls = "ToolSet.instance" /\ v = "old" /\ f.fn = "insertOne" ->
            call("Ops.instance", "writeData", <<"insertOne", ThisColl, "doc", ThisConn>>)
       [] f.cls = "ToolSet.instance" /\ v = "old" /\ f.fn \in DocFilterWrites ->
            call("Ops.instance", "writeData", <<f.fn, ThisColl, "doc", "filter", ThisConn>>)
       [] f.cls = "ToolSet.instance" /\ v = "old" /\ f.fn \in BulkWrappers ->
            call("Ops.instance", "writeBulkData",
                 <<BulkTypeOf(f.fn), ThisColl, "docs", BulkOrderedOf(f.fn), ThisConn>>)
       [] f.cls = "ToolSet.instance" -> call("ToolSet.static", f.fn, InstanceBody(f.fn))
       [] f.cls = "ToolSet.static" /\ f.fn = "getDataByID" ->
            call("Ops.static", "getData",
                 <<"collectionName", "{ _id: id }", "false", "projection", Absent, Absent,
                   Absent, "connString">>)
       [] f.cls = "ToolSet.static" /\ f.fn = "getDataByFilter" ->
            call("Ops.static", "getData",
                 <<"collectionName", "filter", "false", "projection", "sort", "pagination",
                   Absent, "connString", "collation">>)
       [] f.cls = "ToolSet.static" /\ f.fn = "getDataByAggregate" ->
            call("Ops.static", "getData",
                 <<"collectionName", "pipeline", "true", Absent, Absent, Absent, Absent,
                   "connString", Absent, "options">>)
       [] f.cls = "ToolSet.static" /\ f.fn = "getDataCount" ->
            call("Ops.static", "getData",
                 <<"collectionName", "filter", "false", Absent, Absent, Absent, "true",
                   "connString">>)
       [] f.cls = "ToolSet.static" /\ f.fn = "list" ->
            IF ShowCountOn(Value(f, "showCount")) THEN count \o filter ELSE filter
       [] f.cls = "ToolSet.static" /\ f.fn = "getAllData" ->
            call("Ops.static", "getData",
                 <<"collectionName", "{}", "false", "projection", "sort", "pagination",
                   "false", "connString">>)
       [] f.cls = "ToolSet.static" /\ f.fn = "insertOne" ->
            call("Ops.static", "writeData",
                 <<"insertOne", "collectionName", "doc", Absent, "connString">>)
       [] f.cls = "ToolSet.static" /\ f.fn \in DocFilterWrites ->
            call("Ops.static", "writeData",
                 <<f.fn, "collectionName", "doc", "filter", "connString">>)
       [] f.cls = "ToolSet.static" /\ f.fn \in FilterWrites ->
            call("Ops.static", "writeData",
                 <<f.fn, "collectionName", Absent, "filter", "connString">>)
       [] f.cls = "ToolSet.static" ->
            call("Ops.static", "writeBulkData",
                 <<BulkTypeOf(f.fn), "collectionName", "docs", BulkOrderedOf(f.fn),
                   "connString">>)
       [] f.cls = "Ops.instance" /\ f.fn = "writeData" ->
            call("Ops.static", "writeData",
                 <<"type", "collectionName", "doc", "filter", ThisConn>>)
       [] f.cls = "Ops.instance" ->
            call("Ops.static", "writeBulkData",
                 <<"type", "collectionName", "docs", "ordered", ThisConn>>)
       [] f.fn = "getData" /\ Value(f, "isAggregate") = "true" ->
            call("store", "aggregate", <<"connString", "collectionName", "queryExp", "options">>)
       [] f.fn = "getData" /\ Value(f, "isGetCount") = "true" ->
            call("store", "countDocuments", <<"connString", "collectionName", "queryExp || {}">>)
       [] f.fn = "getData" ->
            call("store", "find",
                 <<"connString", "collectionName", "queryExp || {}", "projection", "sort",
                   "pagination", "collation">>)
       [] f.fn = "writeData" /\ Value(f, "type") = "insertOne" ->
            call("store", "insertOne", <<"connString", "collectionName", "doc">>)
       [] f.fn = "writeData" /\ Value(f, "type") \in DocFilterWrites ->
            call("store", Value(f, "type"), <<"connString", "collectionName", "filter", "doc">>)
       [] f.fn = "writeData" ->
            call("store", Value(f, "type"), <<"connString", "collectionName", "filter">>)
       [] OTHER ->
            call("store", "bulkWrite",
                 <<"connString", "collectionName", "type", "docs", "ordered">>)

\* The calls frame f makes, their arguments evaluated.
Delegate(v, f) ==
  [k \in 1..Len(Body(v, f)) |->
     [cls |-> Body(v, f)[k].cls, fn |-> Body(v, f)[k].fn,
      args |-> [j \in 1..Len(Body(v, f)[k].args) |-> Eval(f, Body(v, f)[k].args[j])]]]

\* The first frame of a route that has not reached the store makes its calls.
Step(v, route) ==
  LET i == Min({k \in 1..Len(route) : route[k].cls # "store"})
  IN SubSeq(route, 1, i - 1) \o Delegate(v, route[i]) \o SubSeq(route, i + 1, Len(route))

\* The arguments a caller writes for the parameters sig, having the values
\* `given` and the instance's collectionName and connString at hand.
CallerArgs(sig, given) ==
  [i \in 1..Len(sig) |->
     CASE sig[i] = "collectionName" -> ThisColl
       [] sig[i] = "connString" -> ThisConn
       [] sig[i] \notin given -> Absent
       [] sig[i] = "showCount" -> "bool:true"
       [] OTHER -> sig[i]]

\* No MongoDBToolSet method called.
IdleTs == [pc |-> "idle", v |-> "", m |-> "", inst |-> <<>>, stat |-> <<>>]

TsIdle == ts = IdleTs

FacIdle ==
  /\ fc = IdleFc
  /\ io = NoIo
  /\ docs = <<>>
  /\ settled = Pending

\* ------------------------------------------------------------------- init
RegistryInit ==
  /\ dbClientList = <<>>
  /\ listIsArray = FALSE
  /\ clients = [h \in Handles |-> NoClient]
  /\ calls = [p \in Procs |-> IdleCall]
  /\ last = NoOutcome
  /\ closeUsed = FALSE

PgIdle ==
  /\ pgIn = [startIndex |-> JsUndefined, endIndex |-> JsUndefined]
  /\ pgOut = [skip |-> JsUndefined, limit |-> JsUndefined]
  /\ pgPc = "off"

Init == RegistryInit /\ PgIdle /\ FacIdle /\ LsIdle /\ ScIdle /\ TsIdle

\* ---------------------------------------------------------------- actions
\* getDbClient resolves with handle h for caller p, whose call record is rec:
\* getDbClient itself has settled; a facade operation goes on to issue its
\* store primitive on h.db() and awaits it.
Resolve(p, rec, h) ==
  IF rec.op = "getDbClient"
    THEN /\ calls' = [calls EXCEPT ![p] = IdleCall]
         /\ last' = [Outcome(rec, h, "") EXCEPT !.live = (clients'[h].state = "connected")]
    ELSE /\ calls' = [calls EXCEPT ![p] = [rec EXCEPT !.pc = "store", !.ret = h]]
         /\ UNCHANGED last

\* new MongoDBOps(connString)
Construct(c) ==
  /\ last' = Outcome([IdleCall EXCEPT !.op = "constructor", !.conn = c], 0,
                     IF Falsy(c) THEN "missing-connection-string" ELSE "")
  /\ UNCHANGED <<dbClientList, listIsArray, clients, calls, closeUsed>>
  /\ UNCHANGED <<pgVars, fcVars, lsVars, scVars, tsVars>>

\* A static call: getDbClient(c), or a facade operation given connString c,
\* run up to the first await inside getDbClient (or to its return).
Call(p, op, c) ==
  /\ calls[p].pc = "idle"
  /\ UNCHANGED <<dbClientList, clients, closeUsed>>
  /\ LET rec == [Started(op, c) EXCEPT !.path = Branch(c)]
     IN CASE Branch(c) = "throw" ->
               /\ last' = Outcome(rec, 0, "missing-connection-string")
               /\ UNCHANGED <<calls, listIsArray>>
          [] Branch(c) = "cached" ->
               /\ Resolve(p, rec, dbClientList[FindCached(c)])
               /\ listIsArray' = TRUE
          [] OTHER ->
               /\ calls' = [calls EXCEPT ![p] = [rec EXCEPT !.pc = "connect"]]
               /\ listIsArray' = TRUE
               /\ UNCHANGED last
  /\ UNCHANGED <<pgVars, fcVars, lsVars, scVars, tsVars>>

\* An instance method of new MongoDBOps(c), which the constructor lets exist
\* for a truthy c only: the static method with this.connString. The instance
\* getCollectionCount calls MongoDBOps.getData(collectionName, this.connString),
\* which leaves getData's connString parameter undefined.
InstanceCall(p, op, c) ==
  /\ ~Falsy(c)
  /\ IF op = "getCollectionCount"
       THEN Call(p, "getData", Absent)
       ELSE Call(p, op, c)

\* MongoClient.connect(connString) settles for a caller awaiting it.
ConnectReply(p, ok) ==
  /\ calls[p].pc = "connect"
  /\ IF ok
       THEN /\ FreshHandle \in Handles
            /\ clients' = [clients EXCEPT ![FreshHandle] =
                             [url |-> calls[p].conn, state |-> "connected"]]
            /\ dbClientList' = ListAfterConnect(calls[p].path, FreshHandle)
            /\ Resolve(p, [calls[p] EXCEPT !.nconn = 1], FreshHandle)
       ELSE /\ calls' = [calls EXCEPT ![p] = IdleCall]
            /\ last' = Outcome(calls[p], 0, "connect-error")
            /\ UNCHANGED <<clients, dbClientList>>
  /\ UNCHANGED <<listIsArray, closeUsed>>
  /\ UNCHANGED <<pgVars, fcVars, lsVars, scVars, tsVars>>

\* The store primitive a facade operation awaits settles.
StoreReply(p, ok) ==
  /\ calls[p].pc = "store"
  /\ calls' = [calls EXCEPT ![p] = IdleCall]
  /\ last' = Outcome(calls[p], calls[p].ret, IF ok THEN "" ELSE "store-error")
  /\ UNCHANGED <<dbClientList, listIsArray, clients, closeUsed>>
  /\ UNCHANGED <<pgVars, fcVars, lsVars, scVars, tsVars>>

\* closeDBConn(), static or through an instance: up to the first item.close().
CloseDBConn(p) ==
  /\ calls[p].pc = "idle"
  /\ IF listIsArray /\ Len(dbClientList) > 0
       THEN /\ calls' = [calls EXCEPT ![p] =
                 [IdleCall EXCEPT !.pc = "closing", !.op = "closeDBConn", !.i = 1]]
            /\ UNCHANGED last
       ELSE /\ last' = Outcome([IdleCall EXCEPT !.op = "closeDBConn"], 0, "")
            /\ UNCHANGED calls
  /\ closeUsed' = TRUE
  /\ UNCHANGED <<dbClientList, listIsArray, clients>>
  /\ UNCHANGED <<pgVars, fcVars, lsVars, scVars, tsVars>>

\* item.close() settles for the entry the for-of loop is at. A rejected await
\* throws out of the loop and of closeDBConn; otherwise the loop goes on while
\* the list has a next entry.
CloseReply(p, ok) ==
  /\ calls[p].pc = "closing"
  /\ clients' = IF ok
                  THEN [clients EXCEPT ![dbClientList[calls[p].i]].state = "closed"]
                  ELSE clients
  /\ LET rec == [calls[p] EXCEPT !.err = IF ok THEN calls[p].err ELSE "close-error"]
     IN IF LoopLeaves(rec.i, ok)
          THEN /\ calls' = [calls EXCEPT ![p] = IdleCall]
               /\ last' = Outcome(rec, 0, rec.err)
          ELSE /\ calls' = [calls EXCEPT ![p] = [rec EXCEPT !.i = rec.i + 1]]
               /\ UNCHANGED last
  /\ UNCHANGED <<dbClientList, listIsArray, closeUsed>>
  /\ UNCHANGED <<pgVars, fcVars, lsVars, scVars, tsVars>>

\* The store side drops a connection: the client's topology leaves "connected".
Disconnect(h) ==
  /\ clients[h].state = "connected"
  /\ clients' = [clients EXCEPT ![h].state = "disconnected"]
  /\ UNCHANGED <<dbClientList, listIsArray, calls, last, closeUsed>>
  /\ UNCHANGED <<pgVars, fcVars, lsVars, scVars, tsVars>>

\* parsePagination is applied to the pagination argument.
ParseStep ==
  /\ pgPc = "input"
  /\ pgOut' = parsePagination(pgIn)
  /\ pgPc' = "done"
  /\ UNCHANGED <<pgIn, dbClientList, listIsArray, clients, calls, last, closeUsed>>
  /\ UNCHANGED <<fcVars, lsVars, scVars, tsVars>>

\* A caller starts getData, search, getCollectionCount, writeData,
\* writeBulkData or one of the insertBulk wrappers with the arguments of rec and the docs array ds; the
\* call runs up to its first await, or to its return.
FacadeCall(rec, ds) ==
  /\ fc.pc = "idle"
  /\ LET nxt == Begin([rec EXCEPT !.ndocs = Len(ds)], ds)
     IN /\ fc' = nxt.fc
        /\ io' = nxt.io
        /\ docs' = nxt.docs
        /\ settled' = nxt.settled
  /\ listIsArray' =
       (listIsArray \/ ~((rec.op = "search" /\ SearchReturnsEarly(rec)) \/ Falsy(ConnOf(rec))))
  /\ UNCHANGED <<dbClientList, clients, calls, last, closeUsed>>
  /\ UNCHANGED <<pgVars, lsVars, scVars, tsVars>>

\* MongoClient.connect(connString) settles for the facade call awaiting it
\* inside getDbClient.
FacConnectReply(ok, e) ==
  /\ fc.pc = "connect"
  /\ IF ok
       THEN /\ FreshHandle \in Handles
            /\ clients' = [clients EXCEPT ![FreshHandle] =
                             [url |-> ConnOf(fc), state |-> "connected"]]
            /\ dbClientList' = ListAfterConnect(fc.path, FreshHandle)
            /\ LET nxt == AfterClient(fc, io, docs)
               IN /\ fc' = nxt.fc
                  /\ io' = nxt.io
                  /\ docs' = nxt.docs
                  /\ settled' = nxt.settled
       ELSE /\ e \in ErrorsOf(fc.op)
            /\ fc' = [fc EXCEPT !.pc = "done"]
            /\ settled' = ErrorOut(fc.op, e)
            /\ io' = [io EXCEPT !.err = e]
            /\ UNCHANGED <<clients, dbClientList, docs>>
  /\ UNCHANGED <<listIsArray, calls, last, closeUsed>>
  /\ UNCHANGED <<pgVars, lsVars, scVars, tsVars>>

\* The primitive the facade call awaits settles. A bulkWrite of which the
\* elements of `failed` fail rejects, the store having applied the others as
\* its ordered flag tells.
FacStoreReply(ok, e, failed) ==
  /\ fc.pc = "store"
  /\ fc' = [fc EXCEPT !.pc = "done"]
  /\ IF ok
       THEN /\ failed = {}
            /\ settled' = Resolved(ShapeOf(fc))
            /\ io' = [io EXCEPT !.applied = 1..Len(io.ops)]
       ELSE /\ e \in ErrorsOf(fc.op)
            /\ failed \subseteq 1..Len(io.ops)
            /\ settled' = ErrorOut(fc.op, e)
            /\ io' = [io EXCEPT !.err = e,
                                !.failed = failed,
                                !.applied = IF failed = {} THEN {}
                                            ELSE BulkApplied(Len(io.ops), io.ordered, failed)]
  /\ UNCHANGED <<dbClientList, listIsArray, clients, calls, last, closeUsed, docs>>
  /\ UNCHANGED <<pgVars, lsVars, scVars, tsVars>>

\* The caller of a bulk operation that failed calls it again with the same
\* arguments and the same docs array, as that array is by now.
FacadeRetry ==
  /\ fc.pc = "done"
  /\ fc.op \in BulkOps
  /\ settled.state = "rejected"
  /\ fc.retry = 0
  /\ LET nxt == Begin([fc EXCEPT !.pc = "idle", !.path = "", !.retry = 1], docs)
     IN /\ fc' = nxt.fc
        /\ io' = nxt.io
        /\ docs' = nxt.docs
        /\ settled' = nxt.settled
  /\ listIsArray' = (listIsArray \/ ~Falsy(fc.conn))
  /\ UNCHANGED <<dbClientList, clients, calls, last, closeUsed>>
  /\ UNCHANGED <<pgVars, lsVars, scVars, tsVars>>

\* The caller has the settled promise and is free to call again.
FacadeReturn ==
  /\ fc.pc = "done"
  /\ fc' = IdleFc
  /\ io' = NoIo
  /\ docs' = <<>>
  /\ settled' = Pending
  /\ UNCHANGED <<dbClientList, listIsArray, clients, calls, last, closeUsed>>
  /\ UNCHANGED <<pgVars, lsVars, scVars, tsVars>>

\* A caller starts list: getDataCount and getDataByFilter (or the latter
\* alone) each run up to the first await inside getDbClient, or to their
\* return, before list awaits anything.
ListCall(l) ==
  /\ ls.pc = "idle"
  /\ LET sub == [k \in 1..Len(SubCalls(l)) |-> StartSub(SubCalls(l)[k])]
     IN ls' = [ls EXCEPT !.pc = IF AllDone(sub) THEN "done" ELSE "run",
                         !.arg = l,
                         !.sub = sub,
                         !.out = ListOut(l, Pending, sub),
                         !.fresh = (FindCached(l.conn) = 0),
                         !.opened = 0,
                         !.writes = 0]
  /\ listIsArray' = (listIsArray \/ ~Falsy(l.conn))
  /\ UNCHANGED <<dbClientList, clients, calls, last, closeUsed>>
  /\ UNCHANGED <<pgVars, fcVars, scVars, tsVars>>

\* MongoClient.connect(connString) settles for the k-th call of list.
ListConnectReply(k, ok, e) ==
  /\ ls.pc = "run"
  /\ k \in 1..Len(ls.sub)
  /\ ls.sub[k].fc.pc = "connect"
  /\ IF ok
       THEN /\ FreshHandle \in Handles
            /\ clients' = [clients EXCEPT ![FreshHandle] =
                             [url |-> ls.arg.conn, state |-> "connected"]]
            /\ dbClientList' = ListAfterConnect(ls.sub[k].fc.path, FreshHandle)
            /\ LET b == AfterClient(ls.sub[k].fc, ls.sub[k].io, <<>>)
                   sub == [ls.sub EXCEPT ![k] =
                             SubOf(b, IF b.settled.state = "resolved" THEN 0 ELSE 0 - 1, 0 - 1)]
               IN ls' = [ls EXCEPT !.sub = sub,
                                   !.out = ListOut(ls.arg, ls.out, sub),
                                   !.opened = @ + 1,
                                   !.pc = IF AllDone(sub) THEN "done" ELSE "run"]
       ELSE /\ e \in ErrorsOf("getData")
            /\ LET sub == [ls.sub EXCEPT ![k].fc.pc = "done",
                                         ![k].settled = ErrorOut("getData", e),
                                         ![k].io.err = e]
               IN ls' = [ls EXCEPT !.sub = sub,
                                   !.out = ListOut(ls.arg, ls.out, sub),
                                   !.pc = IF AllDone(sub) THEN "done" ELSE "run"]
            /\ UNCHANGED <<clients, dbClientList>>
  /\ UNCHANGED <<listIsArray, calls, last, closeUsed>>
  /\ UNCHANGED <<pgVars, fcVars, scVars, tsVars>>

\* countDocuments or find().toArray() of the k-th call of list settles: the
\* store evaluates it on the collection as it is now.
ListStoreReply(k, ok, e) ==
  /\ ls.pc = "run"
  /\ k \in 1..Len(ls.sub)
  /\ ls.sub[k].fc.pc = "store"
  /\ LET sub == IF ok
                  THEN [ls.sub EXCEPT ![k].fc.pc = "done",
                                      ![k].settled = Resolved(ShapeOf(ls.sub[k].fc)),
                                      ![k].value = IF ls.sub[k].io.prim = "countDocuments"
                                                     THEN ls.size
                                                     ELSE PageLen(ls.size, ls.sub[k].io.query),
                                      ![k].at = ls.writes]
                  ELSE [ls.sub EXCEPT ![k].fc.pc = "done",
                                      ![k].settled = ErrorOut("getData", e),
                                      ![k].io.err = e]
     IN /\ ok \/ e \in ErrorsOf("getData")
        /\ ls' = [ls EXCEPT !.sub = sub,
                            !.out = ListOut(ls.arg, ls.out, sub),
                            !.pc = IF AllDone(sub) THEN "done" ELSE "run"]
  /\ UNCHANGED <<dbClientList, listIsArray, clients, calls, last, closeUsed>>
  /\ UNCHANGED <<pgVars, fcVars, scVars, tsVars>>

\* Another caller's insertOne (d = 1) or deleteOne (d = -1) of a document
\* matching list's query takes effect in the store.
OtherWrite(d) ==
  /\ ls.size + d \in 0..MaxColl
  /\ ls.pc # "idle" => ls.writes < MaxWrites
  /\ ls' = [ls EXCEPT !.size = @ + d, !.writes = IF ls.pc # "idle" THEN @ + 1 ELSE @]
  /\ UNCHANGED <<dbClientList, listIsArray, clients, calls, last, closeUsed>>
  /\ UNCHANGED <<pgVars, fcVars, scVars, tsVars>>

\* The caller has list's settled promise and is free to call again.
ListReturn ==
  /\ ls.pc = "done"
  /\ ls' = [IdleList EXCEPT !.size = ls.size]
  /\ UNCHANGED <<dbClientList, listIsArray, clients, calls, last, closeUsed>>
  /\ UNCHANGED <<pgVars, fcVars, scVars, tsVars>>

\* Single-client variant. The application assigns MongoDBOps.poolSize.
ScSetPoolSize(v) ==
  /\ sc.pc = "idle"
  /\ sc' = [sc EXCEPT !.poolSize = v]
  /\ UNCHANGED <<dbClientList, listIsArray, clients, calls, last, closeUsed>>
  /\ UNCHANGED <<pgVars, fcVars, lsVars, tsVars>>

\* A caller starts openDBConn(c, p), or getData, writeData or writeBulkData
\* with connString c, which call openDBConn(c) first when there is no
\* connected client.
ScCall(op, c, p) ==
  /\ sc.pc = "idle"
  /\ LET s == [sc EXCEPT !.op = op, !.conn = c, !.given = p, !.was = sc.client]
     IN sc' = IF op = "openDBConn" THEN OpenDBConn(s, p)
              ELSE IF ScConnected(sc.client) THEN ScExecute(s)
              ELSE OpenDBConn(s, NotGiven)
  /\ UNCHANGED <<dbClientList, listIsArray, clients, calls, last, closeUsed>>
  /\ UNCHANGED <<pgVars, fcVars, lsVars, tsVars>>

\* MongoClient.connect(connString, { poolSize, ... }) settles.
ScConnectReply(ok) ==
  /\ sc.pc = "connect"
  /\ IF ok
       THEN /\ sc.made < MaxHandles
            /\ LET s == [sc EXCEPT !.client = [url |-> sc.conn, state |-> "connected",
                                               pool |-> sc.pool],
                                   !.made = @ + 1, !.nconn = @ + 1]
               IN sc' = IF sc.op = "openDBConn" THEN [s EXCEPT !.pc = "done"] ELSE ScExecute(s)
       ELSE sc' = [sc EXCEPT !.pc = "done", !.err = "connect-error"]
  /\ UNCHANGED <<dbClientList, listIsArray, clients, calls, last, closeUsed>>
  /\ UNCHANGED <<pgVars, fcVars, lsVars, tsVars>>

\* The primitive awaited on MongoDBOps.dbClient.db() settles.
ScStoreReply(ok) ==
  /\ sc.pc = "store"
  /\ sc' = [sc EXCEPT !.pc = "done", !.err = IF ok THEN "" ELSE "store-error"]
  /\ UNCHANGED <<dbClientList, listIsArray, clients, calls, last, closeUsed>>
  /\ UNCHANGED <<pgVars, fcVars, lsVars, tsVars>>

\* closeDBConn(): if (MongoDBOps.dbClient) await MongoDBOps.dbClient.close()
ScClose ==
  /\ sc.pc = "idle"
  /\ sc' = [sc EXCEPT !.op = "closeDBConn", !.was = sc.client,
                      !.pc = IF sc.client = NoScClient THEN "done" ELSE "closing"]
  /\ UNCHANGED <<dbClientList, listIsArray, clients, calls, last, closeUsed>>
  /\ UNCHANGED <<pgVars, fcVars, lsVars, tsVars>>

\* dbClient.close() settles.
ScCloseReply(ok) ==
  /\ sc.pc = "closing"
  /\ sc' = IF ok THEN [sc EXCEPT !.pc = "done", !.client.state = "closed"]
                 ELSE [sc EXCEPT !.pc = "done", !.err = "close-error"]
  /\ UNCHANGED <<dbClientList, listIsArray, clients, calls, last, closeUsed>>
  /\ UNCHANGED <<pgVars, fcVars, lsVars, tsVars>>

\* The store side drops the connection of MongoDBOps.dbClient.
ScDisconnect ==
  /\ sc.client.state = "connected"
  /\ sc' = [sc EXCEPT !.client.state = "disconnected"]
  /\ UNCHANGED <<dbClientList, listIsArray, clients, calls, last, closeUsed>>
  /\ UNCHANGED <<pgVars, fcVars, lsVars, tsVars>>

\* The caller has the settled promise and is free to call again.
ScReturn ==
  /\ sc.pc = "done"
  /\ sc' = ScRest(sc)
  /\ UNCHANGED <<dbClientList, listIsArray, clients, calls, last, closeUsed>>
  /\ UNCHANGED <<pgVars, fcVars, lsVars, tsVars>>

\* A caller calls method m of version v in both forms with the same
\* arguments: on an instance, and as the static method with the instance's
\* collectionName and connString.
TsCall(v, m, given) ==
  /\ ts.pc = "idle"
  /\ ts' = [pc |-> "run", v |-> v, m |-> m,
            inst |-> <<[cls |-> "ToolSet.instance", fn |-> m,
                        args |-> CallerArgs(Params(m), given)]>>,
            stat |-> <<[cls |-> "ToolSet.static", fn |-> m,
                        args |-> CallerArgs(StaticSig(m), given)]>>]
  /\ UNCHANGED <<dbClientList, listIsArray, clients, calls, last, closeUsed>>
  /\ UNCHANGED <<pgVars, fcVars, lsVars, scVars>>

\* One of the two forms goes one call further down.
TsStep(form) ==
  /\ ts.pc = "run"
  /\ \E k \in 1..Len(ts[form]) : ts[form][k].cls # "store"
  /\ LET nxt == [ts EXCEPT ![form] = Step(ts.v, ts[form])]
     IN ts' = [nxt EXCEPT !.pc = IF \A r \in {nxt.inst, nxt.stat} :
                                      \A k \in 1..Len(r) : r[k].cls = "store"
                                   THEN "done" ELSE "run"]
  /\ UNCHANGED <<dbClientList, listIsArray, clients, calls, last, closeUsed>>
  /\ UNCHANGED <<pgVars, fcVars, lsVars, scVars>>

\* Both forms have returned.
TsReturn ==
  /\ ts.pc = "done"
  /\ ts' = IdleTs
  /\ UNCHANGED <<dbClientList, listIsArray, clients, calls, last, closeUsed>>
  /\ UNCHANGED <<pgVars, fcVars, lsVars, scVars>>

\* ------------------------------------------------------------ specifications
\* Overlapping getDbClient calls: any caller may take a step at any time.
Next ==
  \/ \E p \in Procs, c \in ConnStrings : Call(p, "getDbClient", c)
  \/ \E p \in Procs, ok \in BOOLEAN : ConnectReply(p, ok)
  \/ \E h \in Handles : Disconnect(h)

Spec == Init /\ [][Next]_vars

\* One call at a time: a single caller, each call run to completion before
\* the next one starts.
SeqNext ==
  \/ \E c \in CallArgs : Construct(c)
  \/ \E op \in AcquireOps, c \in CallArgs : Call(1, op, c)
  \/ \E op \in FacadeOps, c \in ConnStrings : InstanceCall(1, op, c)
  \/ \E ok \in BOOLEAN : ConnectReply(1, ok)
  \/ \E ok \in BOOLEAN : StoreReply(1, ok)
  \/ CloseDBConn(1)
  \/ \E ok \in BOOLEAN : CloseReply(1, ok)
  \/ \E h \in Handles : Disconnect(h)

SeqSpec == Init /\ [][SeqNext]_vars

\* parsePagination alone, on every pair of bounds of PgValues.
PagInit ==
  /\ RegistryInit
  /\ pgIn \in [startIndex : PgValues, endIndex : PgValues]
  /\ pgOut = [skip |-> JsUndefined, limit |-> JsUndefined]
  /\ pgPc = "input"
  /\ FacIdle
  /\ LsIdle
  /\ ScIdle
  /\ TsIdle

PagNext == ParseStep

PagSpec == PagInit /\ [][PagNext]_vars

\* The facade operations with their arguments, one call at a time on a
\* registry that starts empty.
FacNext ==
  \/ /\ fc.pc = "idle"
     /\ \E rec \in GetDataArgs \cup SearchArgs \cup WriteArgs \cup CollCountArgs :
          FacadeCall(rec, <<>>)
  \/ /\ fc.pc = "idle"
     /\ \E rec \in BulkArgs \cup WrapperArgs, n \in 0..MaxDocs : FacadeCall(rec, RawDocs(n))
  \/ /\ fc.pc = "connect"
     /\ \E ok \in BOOLEAN, e \in DriverErrors : FacConnectReply(ok, e)
  \/ /\ fc.pc = "store"
     /\ \E ok \in BOOLEAN, e \in DriverErrors, failed \in SUBSET (1..MaxDocs) :
          FacStoreReply(ok, e, failed)
  \/ FacadeRetry
  \/ FacadeReturn

FacSpec == Init /\ [][FacNext]_vars

\* list, one call at a time on a registry that starts empty, while other
\* callers insert into and delete from the collection.
ListNext ==
  \/ /\ ls.pc = "idle"
     /\ \E l \in ListArgs : ListCall(l)
  \/ \E k \in 1..2, ok \in BOOLEAN, e \in ErrorsOf("getData") : ListConnectReply(k, ok, e)
  \/ \E k \in 1..2, ok \in BOOLEAN, e \in ErrorsOf("getData") : ListStoreReply(k, ok, e)
  \/ \E d \in {1, 0 - 1} : OtherWrite(d)
  \/ ListReturn

ListSpec == Init /\ [][ListNext]_vars

\* The single-client variant, one call at a time.
ScNext ==
  \/ \E v \in StaticPools : ScSetPoolSize(v)
  \/ \E c \in CallArgs, p \in PoolArgs : ScCall("openDBConn", c, p)
  \/ \E op \in ScFacadeOps, c \in CallArgs : ScCall(op, c, NotGiven)
  \/ \E ok \in BOOLEAN : ScConnectReply(ok)
  \/ \E ok \in BOOLEAN : ScStoreReply(ok)
  \/ ScClose
  \/ \E ok \in BOOLEAN : ScCloseReply(ok)
  \/ ScDisconnect
  \/ ScReturn

ScSpec == Init /\ [][ScNext]_vars

\* Every MongoDBToolSet method of both versions, each argument given or left
\* out.
TsNext ==
  \/ /\ ts.pc = "idle"
     /\ \E m \in NewMethods : \E given \in SUBSET {Params(m)[k] : k \in 1..Len(Params(m))} :
          TsCall("new", m, given)
  \/ /\ ts.pc = "idle"
     /\ \E m \in OldMethods : \E given \in SUBSET {Params(m)[k] : k \in 1..Len(Params(m))} :
          TsCall("old", m, given)
  \/ \E form \in {"inst", "stat"} : TsStep(form)
  \/ TsReturn

TsSpec == Init /\ [][TsNext]_vars

\* ===================================================================== claims
LiveFor(c) == {h \in Handles : clients[h].url = c /\ clients[h].state = "connected"}
EntriesFor(c) == {k \in 1..Len(dbClientList) : clients[dbClientList[k]].url = c}
AllIdle == \A p \in Procs : calls[p].pc = "idle"
Max2(a, b) == IF a >= b THEN a ELSE b

\* The first registry entry for c is a closed client.
CachedClosed(c) ==
  /\ EntriesFor(c) # {}
  /\ clients[dbClientList[Min(EntriesFor(c))]].state = "closed"

\* C1: as long as closeDBConn has not been called, every connection string has
\* at most one connected handle among the clients getDbClient created, and at
\* most one entry in the registry list.
C1_OneLiveHandlePerString ==
  ~closeUsed =>
    \A c \in ConnStrings :
      /\ Cardinality(LiveFor(c)) <= 1
      /\ Cardinality(EntriesFor(c)) <= 1

\* C2: when a getDbClient(c) call follows a call that acquired a handle for c
\* and that handle is still connected as the second call starts, the second
\* call returns the same handle and the two calls connect at most once in all
\* (the one connect the claim allows to the first call).
C2_IdempotentReuse ==
  (last.op = "getDbClient" /\ last.ret # 0 /\ last.prev # 0) =>
    (last.ret = last.prev /\ last.prevN + last.nconn <= 1)

\* C3: every handle getDbClient returns reports connected as it is returned; a
\* call that found the cached entry not connected is awaiting a connect, or
\* has got the client of that connect (and a facade operation has gone on to
\* its store primitive with it).
C3_ReconnectOnStale ==
  /\ (last.op = "getDbClient" /\ last.ret # 0) =>
       (last.live /\ (last.path = "reconnect" => last.nconn = 1))
  /\ \A p \in Procs :
       (calls[p].pc # "idle" /\ calls[p].path = "reconnect") =>
         \/ calls[p].pc = "connect"
         \/ /\ calls[p].pc = "store"
            /\ calls[p].nconn = 1
            /\ clients[calls[p].ret].url = calls[p].conn

\* C3 witness: a getDbClient call has reconnected and returned a connected
\* handle for a connection string for which an earlier call had already
\* reconnected (its client is connected or not, and is not in the registry).
C3_Witness ==
  /\ last.op = "getDbClient" /\ last.path = "reconnect" /\ last.ret # 0 /\ last.live
  /\ \E h \in Handles :
       /\ h # last.ret
       /\ clients[h].url = last.conn
       /\ \A k \in 1..Len(dbClientList) : dbClientList[k] # h

\* C4: after a getDbClient(c) call that found the cached handle not connected
\* and reconnected, the registry entry for c is the handle the call returned.
C4_ReplaceInPlace ==
  (last.op = "getDbClient" /\ last.path = "reconnect" /\ last.ret # 0) =>
    dbClientList[Min(EntriesFor(last.conn))] = last.ret

\* C5: once closeDBConn has returned with nothing in flight, every handle of
\* the registry is closed and the registry holds no entry.
C5_CloseAllEmptiesRegistry ==
  (last.op = "closeDBConn" /\ last.err = "" /\ AllIdle) =>
    /\ \A k \in 1..Len(dbClientList) : clients[dbClientList[k]].state = "closed"
    /\ Len(dbClientList) = 0

\* C6 as stated: closeDBConn never fails; when the close of one entry failed,
\* it still completes and every other entry has been closed.
C6_CloseNeverFails ==
  (last.op = "closeDBConn" /\ AllIdle) =>
    /\ last.err = ""
    /\ \A k \in 1..Len(dbClientList) :
         k # last.i => clients[dbClientList[k]].state = "closed"

\* C6 amended: a failed close ends closeDBConn at once. No closeDBConn goes on
\* with its loop after a close has failed; it settles with the close error at
\* the entry whose close failed, having closed the entries before that one.
C6_CloseFailureAborts ==
  /\ \A p \in Procs : calls[p].pc = "closing" => calls[p].err = ""
  /\ (last.op = "closeDBConn" /\ last.i # 0 /\ AllIdle) =>
       /\ last.err \in {"", "close-error"}
       /\ last.err = "" => last.i = Len(dbClientList)
       /\ \A k \in 1..(last.i - 1) : clients[dbClientList[k]].state = "closed"

\* C6 witness: closeDBConn has failed at an entry and an entry after it is
\* still connected.
C6_Witness ==
  /\ last.op = "closeDBConn" /\ last.err = "close-error" /\ AllIdle
  /\ \E k \in 1..Len(dbClientList) :
       k > last.i /\ clients[dbClientList[k]].state = "connected"

\* C7 as stated: a facade operation for a connection string whose cached
\* handle has been closed opens no connection.
C7_NoReopenAfterClose ==
  \A p \in Procs :
    (calls[p].op \in FacadeOps /\ CachedClosed(calls[p].conn)) =>
      (calls[p].pc # "connect" /\ calls[p].nconn = 0)

\* C7 amended: a facade operation for a connection string whose cached handle
\* has been closed never runs on the closed handle: it has found the entry not
\* connected and called MongoClient.connect, and it issues its store primitive
\* only on the client of that connect.
C7_ReopenAfterClose ==
  \A p \in Procs :
    (calls[p].op \in FacadeOps /\ calls[p].pc # "idle" /\ CachedClosed(calls[p].conn)) =>
      /\ calls[p].path = "reconnect"
      /\ calls[p].pc \in {"connect", "store"}
      /\ calls[p].pc = "store" =>
           /\ calls[p].nconn = 1
           /\ clients[calls[p].ret].url = calls[p].conn
           /\ clients[calls[p].ret].state # "closed"

\* C7 witness: a facade operation awaits its store primitive on a newly
\* connected client while the registry entry for its connection string is the
\* closed one.
C7_Witness ==
  \E p \in Procs :
    /\ calls[p].op \in FacadeOps /\ calls[p].pc = "store" /\ calls[p].nconn = 1
    /\ CachedClosed(calls[p].conn)

\* Callers awaiting the connect of the fall-through path for c.
InFlightNew(c) ==
  {p \in Procs : calls[p].pc = "connect" /\ calls[p].path = "new" /\ calls[p].conn = c}

\* C8: duplicate entries come from overlapping calls only. The entries for a
\* connection string, together with the calls still awaiting a first connect for
\* it, never outnumber the callers; a reconnect adds no entry.
C8_DuplicatesOnlyByOverlap ==
  \A c \in ConnStrings :
    Cardinality(EntriesFor(c)) + Cardinality(InFlightNew(c)) <= NumProcs

\* C8 witness: the registry holds two entries for one connection string, and
\* two calls for it that both found the cached handle not connected are both
\* awaiting their reconnect.
C8_Witness ==
  \E c \in ConnStrings :
    /\ Cardinality(EntriesFor(c)) >= 2
    /\ \E p, q \in Procs :
         /\ p # q
         /\ calls[p].pc = "connect" /\ calls[p].path = "reconnect" /\ calls[p].conn = c
         /\ calls[q].pc = "connect" /\ calls[q].path = "reconnect" /\ calls[q].conn = c

\* C9: a getDbClient call, a facade operation or a constructor given an empty
\* or undefined connection string settles with missing-connection-string and
\* without a handle or a connect; no such call is ever awaiting anything; and
\* the step in which it fails leaves the registry and the clients as they were.
C9_MissingConnString ==
  /\ [](/\ (last.op \in AcquireOps \cup {"constructor"} /\ last.conn \in {"", Absent}) =>
             (last.err = "missing-connection-string" /\ last.ret = 0 /\ last.nconn = 0)
        /\ \A p \in Procs :
             calls[p].pc # "idle" /\ calls[p].op \in AcquireOps
               => calls[p].conn \notin {"", Absent})
  /\ [][(last' # last /\ last'.op \in AcquireOps \cup {"constructor"}
           /\ last'.conn \in {"", Absent})
          => UNCHANGED <<dbClientList, listIsArray, clients, calls>>]_vars

\* C9 witness: getDbClient("") has failed with missing-connection-string while
\* the registry holds an entry.
C9_Witness ==
  /\ last.op = "getDbClient" /\ last.conn = ""
  /\ last.err = "missing-connection-string"
  /\ Len(dbClientList) > 0

\* C10: for integer startIndex and endIndex, parsePagination returns
\* skip = max(startIndex,1) - 1 and limit = max(endIndex - max(startIndex,1) + 1, 0),
\* both of them >= 0.
C10_PaginationNormalised ==
  (/\ pgPc = "done"
   /\ pgIn.startIndex.t = "number" /\ pgIn.startIndex.twice % 2 = 0
   /\ pgIn.endIndex.t = "number" /\ pgIn.endIndex.twice % 2 = 0) =>
    LET s == pgIn.startIndex.twice \div 2
        e == pgIn.endIndex.twice \div 2
        s1 == Max2(s, 1)
    IN /\ pgOut.skip = [t |-> "number", twice |-> 2 * (s1 - 1)]
       /\ pgOut.limit = [t |-> "number", twice |-> 2 * Max2(e - s1 + 1, 0)]
       /\ pgOut.skip.twice >= 0
       /\ pgOut.limit.twice >= 0

\* C10 witness: startIndex -1 and endIndex 2 have been normalised to skip 0 and
\* limit 2.
C10_Witness ==
  /\ pgPc = "done"
  /\ pgIn = [startIndex |-> [t |-> "number", twice |-> 0 - 2],
             endIndex |-> [t |-> "number", twice |-> 4]]
  /\ pgOut = [skip |-> [t |-> "number", twice |-> 0],
              limit |-> [t |-> "number", twice |-> 4]]

\* getData in find mode (neither aggregate nor count), or search.
FindOrSearch ==
  \/ fc.op = "getData" /\ ~fc.isAggregate /\ ~fc.isGetCount
  \/ fc.op = "search"

\* The call has every argument it requires: a connection string, a collection
\* name and, for search, a search spec.
ArgsGiven == fc.conn = "c1" /\ fc.coll = "col" /\ (fc.op = "search" => fc.search = "spec")

\* A bound that is a number but not an integer (NaN included).
NonIntegral(v) == v.t = "NaN" \/ (v.t = "number" /\ v.twice % 2 # 0)

\* The pagination argument is there but lacks a bound, or has a non-integral one.
PgIncomplete(pg) ==
  /\ pg.given
  /\ \/ pg.startIndex.t = "undefined" \/ pg.endIndex.t = "undefined"
     \/ NonIntegral(pg.startIndex) \/ NonIntegral(pg.endIndex)

\* C11: when getData in find mode or search is given a pagination that lacks
\* startIndex or endIndex, or has a non-integral bound, the query it submits
\* has no skip and no limit and is the query of the same call made without
\* a pagination argument.
C11_PaginationAbsent ==
  (FindOrSearch /\ fc.pc = "store" /\ PgIncomplete(fc.pagination)) =>
    /\ ~io.query.skipSet
    /\ ~io.query.limitSet
    /\ io.query = IF fc.op = "getData"
                    THEN FindQuery(fc.opts, PgAbsent)
                    ELSE SearchQuery(fc.opts, PgAbsent, fc.isGetCount)

\* The pagination argument resolves to limit 0.
LimitZero(pg) == parsePagination(pg).limit = [t |-> "number", twice |-> 0]

\* C12: a getData in find mode or a search whose pagination resolves to
\* limit 0 has no store interaction at any moment of the call (no connect, no
\* primitive), and returns the empty sequence.
C12_LimitZeroShortCircuit ==
  (FindOrSearch /\ ArgsGiven /\ fc.pc # "idle" /\ LimitZero(fc.pagination)) =>
    /\ io.connects = 0
    /\ io.nprim = 0
    /\ fc.pc = "done"
    /\ settled.state = "resolved" /\ settled.shape = "emptyArray"

\* C13: a writeData whose type is none of insertOne, replaceOne, updateOne,
\* updateMany, deleteOne, deleteMany fails with invalid-writeData-type without
\* any store interaction (no connect, no primitive).
C13_WriteInvalidKind ==
  (fc.op = "writeData" /\ ArgsGiven /\ fc.pc # "idle"
     /\ fc.kind \notin {"insertOne", "replaceOne", "updateOne", "updateMany",
                        "deleteOne", "deleteMany"}) =>
    /\ io.connects = 0
    /\ io.nprim = 0
    /\ fc.pc = "done"
    /\ settled.state = "rejected" /\ settled.text = "invalid-writeData-type"

\* C14: a writeBulkData whose type is none of insertBulk, replaceBulk,
\* updateBulk, deleteBulk, allBulk fails with invalid-writeBulkData-type
\* without any I/O (no connect, no bulkWrite), and the caller's docs array is
\* as it was handed in.
C14_BulkInvalidKind ==
  (fc.op = "writeBulkData" /\ ArgsGiven /\ fc.pc # "idle"
     /\ fc.kind \notin {"insertBulk", "replaceBulk", "updateBulk", "deleteBulk", "allBulk"}) =>
    /\ io.connects = 0
    /\ io.nprim = 0
    /\ fc.pc = "done"
    /\ settled.state = "rejected" /\ settled.text = "invalid-writeBulkData-type"
    /\ docs = [i \in 1..fc.ndocs |-> [wrap |-> <<>>, id |-> i]]

\* The i-th operation writeBulkData is to submit for type `kind`, given the
\* caller's i-th document.
ExpectedOp(kind, i) ==
  CASE kind = "insertBulk" -> [wrap |-> <<"insertOne", "document">>, id |-> i]
    [] kind = "replaceBulk" -> [wrap |-> <<"replaceOne">>, id |-> i]
    [] kind = "updateBulk" -> [wrap |-> <<"updateOne">>, id |-> i]
    [] kind = "deleteBulk" -> [wrap |-> <<"deleteOne">>, id |-> i]
    [] OTHER -> [wrap |-> <<>>, id |-> i]

\* C15: a writeBulkData call of a valid type, handed the caller's documents,
\* submits at most one bulkWrite; once it has got its client it has submitted
\* exactly one, whose operations are as many as the documents handed in, the
\* i-th being the i-th document wrapped as its type says (left as it is for
\* allBulk).
C15_BulkWrapping ==
  (fc.op \in {"writeBulkData", "insertBulkOrdered", "insertBulkUnOrdered"}
     /\ fc.retry = 0
     /\ fc.kind \in {"insertBulk", "replaceBulk", "updateBulk", "deleteBulk", "allBulk"}) =>
    /\ io.nprim <= 1
    /\ (fc.pc = "store" \/ settled.state = "resolved") => io.nprim = 1
    /\ io.nprim = 1 =>
         /\ io.prim = "bulkWrite"
         /\ Len(io.ops) = fc.ndocs
         /\ \A i \in 1..fc.ndocs : io.ops[i] = ExpectedOp(fc.kind, i)

\* C15 witness: an insertBulk of MaxDocs documents awaits its bulkWrite of
\* { insertOne: { document: d1 }}, { insertOne: { document: d2 }}, ...
C15_Witness ==
  /\ fc.op = "writeBulkData" /\ fc.kind = "insertBulk" /\ fc.pc = "store"
  /\ fc.ndocs = MaxDocs /\ Len(io.ops) = MaxDocs
  /\ io.ops[MaxDocs] = [wrap |-> <<"insertOne", "document">>, id |-> MaxDocs]

\* The ordered flag the caller asks for: the argument of writeBulkData (false
\* when left out), true for insertBulkOrdered, false for insertBulkUnOrdered.
AskedOrdered ==
  CASE fc.op = "insertBulkOrdered" -> "true"
    [] fc.op = "insertBulkUnOrdered" -> "false"
    [] OTHER -> IF fc.ordered = "true" THEN "true" ELSE "false"

\* C16: the bulkWrite a bulk call submits carries the ordered flag the caller
\* asked for; and when elements of the batch have failed, a call that asked
\* for ordered has had no element after the first failing one applied, a call
\* that did not has had every non-failing element applied.
C16_OrderedFlag ==
  (fc.op \in {"writeBulkData", "insertBulkOrdered", "insertBulkUnOrdered"} /\ io.nprim = 1) =>
    /\ io.ordered = AskedOrdered
    /\ (fc.pc = "done" /\ io.failed # {}) =>
         IF AskedOrdered = "true"
           THEN \A i \in io.applied : \A j \in io.failed : i < j
           ELSE io.applied = (1..fc.ndocs) \ io.failed

\* C16 witness: an ordered batch whose first element failed has had nothing
\* applied, although its last element did not fail.
C16_Witness ==
  /\ fc.op = "writeBulkData" /\ fc.ordered = "true" /\ fc.pc = "done"
  /\ fc.ndocs = MaxDocs /\ io.failed = {1} /\ io.applied = {}

\* C16 second witness: insertBulkUnOrdered, whose first element failed, has
\* had its other elements applied.
C16_WitnessUnordered ==
  /\ fc.op = "insertBulkUnOrdered" /\ fc.pc = "done"
  /\ fc.ndocs = MaxDocs /\ io.failed = {1} /\ io.applied = 2..MaxDocs

\* C17: a failed writeData rejects with the error's errmsg when the error has
\* one, else with its message when it has one, else with the error itself. A
\* field is had when it is a non-empty string, which is what || tests.
C17_ErrorUnwrapping ==
  (fc.op = "writeData" /\ fc.pc = "done" /\ settled.state = "rejected") =>
    settled = IF io.err.errmsg \notin {"<undefined>", ""}
                THEN [state |-> "rejected", shape |-> "string", text |-> io.err.errmsg,
                      err |-> [result |-> "<undefined>", errmsg |-> "<undefined>",
                               message |-> "<undefined>"]]
              ELSE IF io.err.message \notin {"<undefined>", ""}
                THEN [state |-> "rejected", shape |-> "string", text |-> io.err.message,
                      err |-> [result |-> "<undefined>", errmsg |-> "<undefined>",
                               message |-> "<undefined>"]]
              ELSE [state |-> "rejected", shape |-> "error", text |-> "", err |-> io.err]

\* C17 witness: the store primitive of a writeData rejected with an error that
\* has both an errmsg and a message, and the call rejected with the errmsg.
C17_Witness ==
  /\ fc.op = "writeData" /\ fc.pc = "done" /\ io.nprim = 1
  /\ io.err.errmsg = "errmsg-text" /\ io.err.message = "message-text"
  /\ settled.state = "rejected" /\ settled.text = "errmsg-text"

\* C18: a search whose connection string, collection name or search spec is
\* undefined settles at once with the validation error: it is never awaiting
\* a connect or a primitive, and has asked nothing of the driver.
C18_SearchValidation ==
  (fc.op = "search" /\ "<undefined>" \in {fc.conn, fc.coll, fc.search}) =>
    /\ fc.pc = "done"
    /\ settled.state = "rejected"
    /\ settled.text = "Connection string, collection name and search cannot be undefined"
    /\ io.connects = 0
    /\ io.nprim = 0

\* C18 witness: a search with connection string and collection name but no
\* search spec has been rejected on an empty registry.
C18_Witness ==
  /\ fc.op = "search" /\ fc.pc = "done"
  /\ fc.conn = "c1" /\ fc.coll = "col" /\ fc.search = "<undefined>"
  /\ settled.state = "rejected" /\ io.connects = 0
  /\ Len(dbClientList) = 0

\* C19 as stated: a search with isGetCount true that completes without error
\* returns the combined record, whatever the pagination.
C19_CountReturnsRecord ==
  (fc.op = "search" /\ fc.isGetCount /\ fc.pc = "done" /\ settled.state = "resolved") =>
    settled.shape = "record"

\* C19 amended: a search with isGetCount true that completes without error
\* returns the combined record (the first element of the aggregate's result),
\* unless its pagination resolves to limit 0, and then the empty sequence.
C19_CountReturnsRecordUnlessLimitZero ==
  (fc.op = "search" /\ fc.isGetCount /\ fc.pc = "done" /\ settled.state = "resolved") =>
    IF parsePagination(fc.pagination).limit = [t |-> "number", twice |-> 0]
      THEN settled.shape = "emptyArray" /\ io.nprim = 0
      ELSE settled.shape = "record" /\ io.nprim = 1 /\ io.query.facet

\* C19 witness: a search with isGetCount true and a pagination of limit 2 has
\* returned the combined record.
C19_Witness ==
  /\ fc.op = "search" /\ fc.isGetCount /\ fc.pc = "done"
  /\ fc.pagination.given
  /\ parsePagination(fc.pagination).limit = [t |-> "number", twice |-> 4]
  /\ settled.state = "resolved" /\ settled.shape = "record"

\* C20: the page a search with isGetCount true puts into the metadata stage
\* of the pipeline it submits is a positive integer, whether or not a
\* pagination was given; when skip and limit are both resolved it is the
\* least k with k * limit >= skip + 1, that is ceil((skip + 1) / limit).
C20_PageDefined ==
  (fc.op = "search" /\ fc.isGetCount /\ fc.pc = "store") =>
    LET skip == parsePagination(fc.pagination).skip
        limit == parsePagination(fc.pagination).limit
        page == io.query.page
    IN /\ page.t = "number"
       /\ page.twice % 2 = 0
       /\ page.twice >= 2
       /\ (skip.t = "number" /\ limit.t = "number") =>
            /\ page.twice * limit.twice >= 2 * (skip.twice + 2)
            /\ (page.twice - 2) * limit.twice < 2 * (skip.twice + 2)

\* C21: a getData with isGetCount true and isAggregate false asks the store
\* for countDocuments and for nothing else, and resolves to the count it
\* gets, for every pagination argument; it never returns the empty sequence.
C21_CountIgnoresPagination ==
  (fc.op = "getData" /\ fc.isGetCount /\ ~fc.isAggregate) =>
    /\ fc.pc = "store" => io.prim = "countDocuments" /\ io.query = NoQuery
    /\ settled.state = "resolved" => settled.shape = "count" /\ io.prim = "countDocuments"
    /\ settled.shape # "emptyArray"
    /\ (fc.pc = "done" /\ io.err = NoError) => settled.state = "resolved"

\* C21 witness: a count with a pagination that resolves to limit 0 has
\* returned the count.
C21_Witness ==
  /\ fc.op = "getData" /\ fc.isGetCount /\ ~fc.isAggregate /\ fc.pc = "done"
  /\ fc.pagination.given
  /\ parsePagination(fc.pagination).limit = [t |-> "number", twice |-> 0]
  /\ settled.state = "resolved" /\ settled.shape = "count"

\* C26: when a writeBulkData call of a type other than allBulk has failed and
\* the caller calls it again with the same docs array, the second call
\* submits the operations the first one was to submit: the caller's i-th
\* document wrapped exactly once.
C26_SafeReinvocation ==
  (fc.op \in {"writeBulkData", "insertBulkOrdered", "insertBulkUnOrdered"}
     /\ fc.kind \in {"insertBulk", "replaceBulk", "updateBulk", "deleteBulk"}
     /\ fc.retry = 1 /\ io.nprim = 1) =>
    /\ Len(io.ops) = fc.ndocs
    /\ \A i \in 1..fc.ndocs : io.ops[i] = ExpectedOp(fc.kind, i)

\* C29: a getCollectionCount(collectionName) call on an instance bound to a
\* connection string does what the static getCollectionCount does with that
\* string: it does not reject for a missing connection string, the primitive
\* it submits is estimatedDocumentCount, and what it resolves to is the
\* estimated count.
C29_InstanceCollectionCount ==
  (fc.op = "instanceGetCollectionCount" /\ fc.pc # "idle") =>
    /\ settled # RejectedRaw(CodeError("missing-connection-string"))
    /\ fc.pc = "store" => io.prim = "estimatedDocumentCount"
    /\ settled.state = "resolved" => settled.shape = "estimate"

\* C25: once a closeDBConn has completed without error and no operation is in
\* flight, no handle that a connect of getDbClient created is still connected.
C25_NoLeakedConnections ==
  (last.op = "closeDBConn" /\ last.err = "" /\ \A p \in Procs : calls[p].pc = "idle") =>
    \A h \in Handles : clients[h].state # "connected"

\* list was asked for the count: showCount is true or "true".
CountAsked == ls.arg.showCount = "bool:true" \/ ls.arg.showCount = "str:true"

\* The length of the page a pagination asks for, of n matching documents.
ExpectedPage(n, pg) ==
  IF ~pg.given THEN n
  ELSE LET skip == parsePagination(pg).skip.twice \div 2
           limit == parsePagination(pg).limit.twice \div 2
           rest == IF n > skip THEN n - skip ELSE 0
       IN IF rest < limit THEN rest ELSE limit

\* list's call of getDataByFilter: the last of its calls.
DataCall == ls.sub[Len(ls.sub)]

\* C24: list makes the count call exactly when showCount is true or "true",
\* and then resolves to the record { total_count, data }; otherwise it
\* resolves to what getDataByFilter returned. The count is asked without any
\* pagination and is the number of matching documents; data is asked with
\* list's projection, sort and pagination and is the requested page.
C24_ListShape ==
  ls.pc # "idle" =>
    /\ Len(ls.sub) = IF CountAsked THEN 2 ELSE 1
    /\ ls.out.state = "resolved" =>
          ls.out.shape = IF CountAsked THEN "record" ELSE DataCall.settled.shape
    /\ CountAsked =>
          /\ ls.sub[1].fc.isGetCount /\ ls.sub[1].fc.pagination = PgAbsent
          /\ ls.sub[1].io.nprim = 1 =>
                ls.sub[1].io.prim = "countDocuments" /\ ls.sub[1].io.query = NoQuery
          /\ (ls.sub[1].settled.state = "resolved" /\ ls.sub[1].at = ls.writes) =>
                ls.sub[1].value = ls.size
    /\ ~DataCall.fc.isGetCount /\ DataCall.fc.pagination = ls.arg.pagination
    /\ DataCall.io.nprim = 1 =>
          DataCall.io.prim = "find" /\ DataCall.io.query = FindQuery(ls.arg.opts, ls.arg.pagination)
    /\ (DataCall.settled.state = "resolved" /\ DataCall.at = ls.writes) =>
          DataCall.value = ExpectedPage(ls.size, ls.arg.pagination)
    /\ (DataCall.settled.state = "resolved" /\ DataCall.at = 0 - 1) =>
          DataCall.settled.shape = "emptyArray" /\ DataCall.value = 0

C24_Witness ==
  /\ ls.pc = "done" /\ ls.arg.showCount = "str:true"
  /\ ls.arg.pagination = PgObject(Num(2), Num(2))
  /\ ls.out = Resolved("record")
  /\ ls.sub[1].value = 2 /\ ls.sub[2].value = 1

\* list answered without the count because showCount was false or left out.
C24_WitnessNoCount ==
  /\ ls.pc = "done" /\ ls.arg.showCount = Absent
  /\ ls.out = Resolved("array") /\ ls.sub[1].value = 2

\* C27: a list call with showCount that found no registry entry for its
\* connection string opens at most one connection, and when it has resolved
\* it has opened exactly one and the registry holds exactly one entry for
\* that string.
C27_ListOneConnection ==
  (ls.pc # "idle" /\ CountAsked /\ ls.fresh) =>
    /\ ls.opened <= 1
    /\ (ls.pc = "done" /\ ls.out.state = "resolved") =>
          ls.opened = 1 /\ Cardinality(EntriesFor(ls.arg.conn)) = 1

\* C28: the record a list call with showCount resolves to never holds more
\* documents in data than total_count says there are.
C28_ListConsistent ==
  (ls.pc = "done" /\ CountAsked /\ ls.out.state = "resolved") =>
    ls.sub[2].value <= ls.sub[1].value

\* C28 amended: when no write of another caller took effect between the
\* evaluation of the count and that of the find, data is the requested page
\* of a collection of total_count matching documents, and so no longer than
\* total_count; a find that was not sent, its limit being 0, gives no document.
C28_ListConsistentWithoutWrites ==
  (ls.pc = "done" /\ CountAsked /\ ls.out.state = "resolved") =>
    /\ ls.sub[2].at = 0 - 1 => ls.sub[2].value = 0
    /\ ls.sub[2].at = ls.sub[1].at =>
          /\ ls.sub[2].value = ExpectedPage(ls.sub[1].value, ls.arg.pagination)
          /\ ls.sub[2].value <= ls.sub[1].value

\* Writes took effect before and during the list call, none between its two
\* reads.
C28_Witness ==
  /\ ls.pc = "done" /\ CountAsked /\ ls.out.state = "resolved"
  /\ ls.sub[1].at = 1 /\ ls.sub[2].at = 1
  /\ ls.arg.pagination = PgObject(Num(4), Num(4))
  /\ ls.sub[1].value = 2 /\ ls.sub[2].value = 1

\* C22: openDBConn called while the client is connected makes no connect and
\* leaves the client and its pool size as they were; a call of openDBConn
\* that connects uses the poolSize it was given.
C22_PoolSizeGivenIsUsed ==
  sc.op = "openDBConn" =>
    /\ sc.was.state = "connected" =>
          /\ sc.nconn = 0 /\ sc.pc \in {"done", "idle"}
          /\ sc.client.url = sc.was.url /\ sc.client.pool = sc.was.pool
    /\ (sc.nconn = 1 /\ sc.given # NotGiven) => sc.client.pool = sc.given

\* C22 amended: as C22 for a call made while the client is connected; a call
\* of openDBConn that connects uses the poolSize it was given when that is
\* not the default, and else MongoDBOps.poolSize when the application has
\* set it, and else the default.
C22_PoolSizeOnFirstConnect ==
  sc.op = "openDBConn" =>
    /\ sc.was.state = "connected" =>
          /\ sc.nconn = 0 /\ sc.pc \in {"done", "idle"}
          /\ sc.client.url = sc.was.url /\ sc.client.pool = sc.was.pool
    /\ sc.nconn = 1 =>
          /\ sc.was.state # "connected"
          /\ sc.client.url = sc.conn
          /\ sc.given \notin {NotGiven, DEFAULT_POOLSIZE} => sc.client.pool = sc.given
          /\ (sc.given \in {NotGiven, DEFAULT_POOLSIZE} /\ sc.poolSize # NotGiven) =>
                sc.client.pool = sc.poolSize
          /\ (sc.given \in {NotGiven, DEFAULT_POOLSIZE} /\ sc.poolSize = NotGiven) =>
                sc.client.pool = DEFAULT_POOLSIZE

\* openDBConn given another pool size than that of the connected client.
C22_Witness ==
  /\ sc.op = "openDBConn" /\ sc.pc = "done" /\ sc.err = ""
  /\ sc.was.state = "connected" /\ sc.was.pool = DEFAULT_POOLSIZE /\ sc.given = OtherPool
  /\ sc.client.pool = DEFAULT_POOLSIZE

\* openDBConn given the default connects with MongoDBOps.poolSize.
C22_WitnessStatic ==
  /\ sc.op = "openDBConn" /\ sc.pc = "done" /\ sc.nconn = 1
  /\ sc.given = DEFAULT_POOLSIZE /\ sc.poolSize = OtherPool /\ sc.client.pool = OtherPool

\* C30: in the single-client variant a getData, writeData or writeBulkData
\* call given connection string c awaits its primitive on a client that was
\* created by connecting to c.
C30_ExecutesOnOwnHandle ==
  (sc.op \in {"getData", "writeData", "writeBulkData"} /\ sc.usedUrl # "") =>
    sc.usedUrl = sc.conn

\* C23: when both forms of a MongoDBToolSet method have run, the instance
\* method has asked the store for the same primitives as the static method
\* called with the instance's collectionName and connString, on the same
\* client and collection and with the same arguments; as every call on the
\* way returns what its callee returned, the two return the same.
C23_InstanceEqualsStatic ==
  ts.pc = "done" =>
    /\ Len(ts.inst) >= 1
    /\ Len(ts.inst) = Len(ts.stat)
    /\ \A k \in 1..Len(ts.inst) :
          /\ ts.inst[k].fn = ts.stat[k].fn
          /\ ts.inst[k].args = ts.stat[k].args
          /\ ts.inst[k].args[1] = "this.connString"
          /\ ts.inst[k].args[2] = "this.collectionName"

\* The earlier insertOne, whose instance form goes through the instance
\* writeData of MongoDBOps with the connection string in the filter position.
C23_Witness ==
  /\ ts.pc = "done" /\ ts.v = "old" /\ ts.m = "insertOne"
  /\ ts.inst = <<[cls |-> "store", fn |-> "insertOne",
                  args |-> <<"this.connString", "this.collectionName", "doc">>]>>

\* The later getDataByFilter with a collation, which follows connString.
C23_WitnessCollation ==
  /\ ts.pc = "done" /\ ts.v = "new" /\ ts.m = "getDataByFilter"
  /\ ts.inst[1].fn = "find" /\ ts.inst[1].args[7] = "collation"

====
